---- MODULE Spec2Model ----
(***************************************************************************)
(* FastASGI: the middleware chain builder (MiddlewareChain), the           *)
(* application object that owns it (FastASGI) with its lifespan events and *)
(* its handling of one HTTP request, and the route matcher (Route, with    *)
(* the routers that hold the routes and include one another).              *)
(*                                                                         *)
(* Strings of the program are sequences of one-character strings, so that  *)
(* rstrip, count, find and the anchored regular expression are computed    *)
(* character by character, as the code computes them.                      *)
(***************************************************************************)
EXTENDS Integers, Sequences, FiniteSets, TLC

VARIABLES
    middlewares,          \* MiddlewareChain._middlewares
    app,                  \* the value a direct caller got from MiddlewareChain.build
    raised,               \* the exception the last configuration call raised, or "none"
    app_with_middleware,  \* FastASGI._app_with_middleware
    middleware_built,     \* FastASGI._middleware_built
    startup_handlers,     \* FastASGI._startup_handlers
    lifespan_sent,        \* messages sent by the last lifespan invocation
    assignments,          \* history: number of assignments to _app_with_middleware
    chain_at_build,       \* history: _middlewares when _app_with_middleware was built
    build_skipped,        \* history: _build_middleware_chain ran again and found it built
    pc,                   \* per request: "idle", "call", "return", "start", "body", "done"
    callee,               \* per request: the handler about to be awaited, with its argument
    stack,                \* per request: middleware activations suspended in call_next
    ret,                  \* per request: the value (response or error) being returned
    trace,                \* per request: what the middlewares and the endpoint logged
    using,                \* per request, history: the handler the application (or the chain's caller) held when the request came
    sent,                 \* per request: messages sent on the request's send channel
    routes,               \* the router's routes, in registration order
    registered,           \* history: the template and priority each route was registered with
    query,                \* the path and method of the last lookup, or None
    found,                \* what the last lookup returned: None, or a route and its parameters
    subrouters,           \* per APIRouter other than the application's: its routes, in order
    includes,             \* history: the inclusions done: <<including, included, prefix>>
    shutdown_handlers,    \* FastASGI._shutdown_handlers
    lifespan_pc,          \* the lifespan invocation: "idle", the event whose handlers run, "returned"
    handler_log,          \* history: the handlers the lifespan invocation has run, in order
    inbox,                \* messages the server delivers on the lifespan receive channel
    delivered,            \* history: the messages the lifespan invocation was called with
    channel,              \* messages the server delivers on the request's receive channel
    body_parts,           \* _receive_complete_message: the parts collected so far
    receive_calls,        \* history: the messages _receive_complete_message has received
    phase                 \* the body of the HTTP invocation: "idle", "receive", "pipeline" (complete)

chainVars == <<middlewares, app, raised>>
appVars == <<app_with_middleware, middleware_built, startup_handlers,
             lifespan_sent, assignments, chain_at_build, build_skipped>>
reqVars == <<pc, callee, stack, ret, trace, using, sent>>
routerVars == <<routes, registered, query, found>>
includeVars == <<subrouters, includes>>
lifespanVars == <<shutdown_handlers, lifespan_pc, handler_log, inbox, delivered>>
httpVars == <<channel, body_parts, receive_calls, phase>>
vars == <<chainVars, appVars, reqVars, routerVars, includeVars, lifespanVars, httpVars>>

(***************************************************************************)
(* Bounds                                                                  *)
(***************************************************************************)
MaxChain == 3           \* longest middleware list of a stand-alone chain
MaxAppMiddleware == 2   \* longest middleware list of the application's chain
NumRequests == 2        \* HTTP requests in flight on one application
MaxRoutes == 2          \* routes registered on the router
MaxPathLen == 3         \* characters of a request path
MaxHandlers == 3        \* handlers registered for one lifespan event
MaxChunks == 3          \* messages on the receive channel of one request

Requests == 1..NumRequests

None == [tag |-> "None"]
NoResult == [tag |-> "none", by |-> "none", level |-> 0, req |-> None, status |-> 0]

(***************************************************************************)
(* User middleware.  A is the pass-through middleware of the tests         *)
(* (log, await call_next(request), log, return the response); B does the   *)
(* same with the continuation call inside try/finally; C is the           *)
(* auth_middleware of test_middleware_short_circuit: for a request with    *)
(* path "/admin" it returns its own 401 response without calling its       *)
(* continuation, for every other request it returns await call_next.       *)
(***************************************************************************)
MiddlewareFuncs == {"A", "B", "C"}

Kind(m) == CASE m = "A" -> "pass"
             [] m = "B" -> "finally"
             [] m = "C" -> "auth"

\* the paths of the requests of the tests: the one auth_middleware refuses
\* and one it lets through
AuthPaths == {"/admin", "/"}

\* a request object: who brought it, and its path
request_of(id, path) == [id |-> id, path |-> path]

\* if request.path == "/admin": what the middleware does with this request
behaviour(m, request) ==
    IF Kind(m) = "auth"
    THEN IF request.path = "/admin" THEN "stop" ELSE "pass"
    ELSE Kind(m)

\* how a call of the endpoint ends: a response or an exception
Outcomes == {"response", "error"}

\* the status of the response the endpoint of the tests returns
EndpointStatus == 200

\* Response("Unauthorized", status_code=401)
Unauthorized == 401

\* the results a call of the endpoint for request q at depth lvl can have
EndpointResults(lvl, q) ==
    {[tag |-> "response", by |-> "T", level |-> lvl, req |-> q,
      status |-> EndpointStatus],
     [tag |-> "error", by |-> "T", level |-> lvl, req |-> q, status |-> 0]}

(***************************************************************************)
(* MiddlewareChain                                                         *)
(***************************************************************************)
\* router.handle_request, the innermost handler
Endpoint == [tag |-> "endpoint"]

\* the loop wrapping the endpoint every time instead of the accumulated app
make_middleware_to_endpoint(middleware_func, next_handler) ==
    [tag |-> "wrapped", middleware_func |-> middleware_func,
     next_handler |-> Endpoint]

\* make_middleware(middleware_func, next_handler): the closure `wrapped`
make_middleware(middleware_func, next_handler) ==
    [tag |-> "wrapped", middleware_func |-> middleware_func,
     next_handler |-> next_handler]

\* the loop of build: for mw in reversed(self._middlewares)
RECURSIVE fold_reversed(_, _, _)
fold_reversed(mws, i, next_app) ==
    IF i = 0 THEN next_app
    ELSE fold_reversed(mws, i - 1, make_middleware(mws[i], next_app))

\* the same loop without reversed(): the last registered becomes outermost
RECURSIVE fold_forward(_, _, _)
fold_forward(mws, i, next_app) ==
    IF i > Len(mws) THEN next_app
    ELSE fold_forward(mws, i + 1, make_middleware(mws[i], next_app))

build_forward(mws, endpoint) == fold_forward(mws, 1, endpoint)

\* MiddlewareChain.build(endpoint)
build(mws, endpoint) == fold_reversed(mws, Len(mws), endpoint)

\* MiddlewareChain.count()
count == Len(middlewares)

\* the middleware functions of a composed handler, outermost first
RECURSIVE Layers(_)
Layers(h) ==
    IF h.tag = "endpoint" THEN <<>>
    ELSE <<h.middleware_func>> \o Layers(h.next_handler)

\* The direct caller of the tests is one task: it configures the chain and
\* awaits the composed handler in turn, never both at once.
Caller == CHOOSE r \in Requests : \A q \in Requests : r <= q

\* MiddlewareChain.add(middleware), called on the chain itself
ChainAdd(m) ==
    /\ pc[Caller] = "idle"
    /\ Len(middlewares) < MaxChain
    /\ middlewares' = Append(middlewares, m)
    /\ raised' = "none"
    /\ UNCHANGED <<app, appVars, reqVars>>
    /\ UNCHANGED <<routerVars, includeVars, lifespanVars, httpVars>>

\* MiddlewareChain.clear()
ChainClear ==
    /\ pc[Caller] = "idle"
    /\ middlewares # <<>>
    /\ middlewares' = <<>>
    /\ raised' = "none"
    /\ UNCHANGED <<app, appVars, reqVars>>
    /\ UNCHANGED <<routerVars, includeVars, lifespanVars, httpVars>>

\* app = chain.build(endpoint), called on the chain itself
ChainBuild ==
    /\ pc[Caller] = "idle"
    /\ app' = [handler |-> build(middlewares, Endpoint), from |-> middlewares]
    /\ raised' = "none"
    /\ UNCHANGED <<middlewares, appVars, reqVars>>
    /\ UNCHANGED <<routerVars, includeVars, lifespanVars, httpVars>>

(***************************************************************************)
(* One invocation of a composed handler.  Every step below is one          *)
(* scheduling unit: another request may run between any two of them.       *)
(***************************************************************************)
Enter(m, lvl, q) ==
    [ev |-> "enter", mw |-> m, level |-> lvl, request |-> q, got |-> NoResult]
Terminal(lvl, q) ==
    [ev |-> "T", mw |-> "T", level |-> lvl, request |-> q, got |-> NoResult]
Exit(m, lvl, q, res) ==
    [ev |-> "exit", mw |-> m, level |-> lvl, request |-> q, got |-> res]

\* a stale request: the one of the first invocation still in flight
wrapped_shared(h, request) ==
    [middleware_func |-> h.middleware_func,
     request |-> using[CHOOSE q \in Requests :
                    /\ pc[q] \in {"call", "return"}
                    /\ \A p \in Requests : pc[p] \in {"call", "return"} => q <= p
                 ].request,
     call_next |-> h.next_handler]

\* wrapped(request): return await middleware_func(request, next_handler)
wrapped(h, request) ==
    [middleware_func |-> h.middleware_func, request |-> request,
     call_next |-> h.next_handler]

\* the handler in callee[r] starts running
StepCall(r) ==
    /\ pc[r] = "call"
    /\ LET h == callee[r].handler
           q == callee[r].request
           lvl == Len(stack[r]) + 1
       IN IF h.tag = "endpoint"
          THEN \E result \in EndpointResults(lvl, q) :
                 /\ trace' = [trace EXCEPT ![r] = Append(@, Terminal(lvl, q))]
                 /\ ret' = [ret EXCEPT ![r] = result]
                 /\ pc' = [pc EXCEPT ![r] = "return"]
                 /\ UNCHANGED <<callee, stack>>
          ELSE LET c == wrapped(h, q)
                   m == c.middleware_func
               IN IF behaviour(m, c.request) = "stop"
                  THEN /\ trace' = [trace EXCEPT ![r] =
                                      Append(@, Enter(m, lvl, c.request))]
                       /\ ret' = [ret EXCEPT ![r] =
                                    [tag |-> "response", by |-> m, level |-> lvl,
                                     req |-> c.request, status |-> Unauthorized]]
                       /\ pc' = [pc EXCEPT ![r] = "return"]
                       /\ UNCHANGED <<callee, stack>>
                  ELSE /\ trace' = [trace EXCEPT ![r] =
                                      Append(@, Enter(m, lvl, c.request))]
                       /\ stack' = [stack EXCEPT ![r] =
                                      Append(@, [mw |-> m, request |-> c.request])]
                       /\ callee' = [callee EXCEPT ![r] =
                                       [handler |-> c.call_next,
                                        request |-> c.request]]
                       /\ UNCHANGED <<pc, ret>>
    /\ UNCHANGED <<using, sent, chainVars, appVars>>
    /\ UNCHANGED <<routerVars, includeVars, lifespanVars, httpVars>>

\* the awaited call_next returns (or raises) into the innermost suspended middleware
StepReturn(r) ==
    /\ pc[r] = "return"
    /\ stack[r] # <<>>
    /\ LET top == stack[r][Len(stack[r])]
       IN /\ trace' = [trace EXCEPT ![r] =
                IF ret[r].tag = "response" \/ behaviour(top.mw, top.request) = "finally"
                THEN Append(@, Exit(top.mw, Len(stack[r]), top.request, ret[r]))
                ELSE @]
          /\ stack' = [stack EXCEPT ![r] = SubSeq(@, 1, Len(@) - 1)]
    /\ UNCHANGED <<pc, callee, ret, using, sent, chainVars, appVars>>
    /\ UNCHANGED <<routerVars, includeVars, lifespanVars, httpVars>>

\* the direct caller of the tests: response = await app(request)
Invoke ==
    /\ app # None
    /\ pc[Caller] = "idle"
    /\ \E path \in AuthPaths :
         /\ callee' = [callee EXCEPT ![Caller] =
                         [handler |-> app.handler,
                          request |-> request_of(Caller, path)]]
         /\ using' = [using EXCEPT ![Caller] =
                        [handler |-> app.handler, from |-> app.from,
                         request |-> request_of(Caller, path)]]
    /\ pc' = [pc EXCEPT ![Caller] = "call"]
    /\ UNCHANGED <<stack, ret, trace, sent, chainVars, appVars>>
    /\ UNCHANGED <<routerVars, includeVars, lifespanVars, httpVars>>

\* the task awaiting the composed handler gets its result back
Finish(r) ==
    /\ pc[r] = "return"
    /\ stack[r] = <<>>
    /\ pc' = [pc EXCEPT ![r] = "done"]
    /\ UNCHANGED <<callee, stack, ret, trace, using, sent, chainVars, appVars>>
    /\ UNCHANGED <<routerVars, includeVars, lifespanVars, httpVars>>

\* the direct caller drops the response and goes on with its script
ChainNext ==
    /\ pc[Caller] = "done"
    /\ pc' = [pc EXCEPT ![Caller] = "idle"]
    /\ ret' = [ret EXCEPT ![Caller] = NoResult]
    /\ trace' = [trace EXCEPT ![Caller] = <<>>]
    /\ using' = [using EXCEPT ![Caller] = None]
    /\ callee' = [callee EXCEPT ![Caller] = None]
    /\ UNCHANGED <<stack, sent, chainVars, appVars>>
    /\ UNCHANGED <<routerVars, includeVars, lifespanVars, httpVars>>

(***************************************************************************)
(* FastASGI                                                                *)
(***************************************************************************)
\* add_middleware as it would be if it rebuilt the pipeline instead of refusing
add_middleware_rebuild(m) ==
    /\ Len(middlewares) < MaxAppMiddleware
    /\ middlewares' = Append(middlewares, m)
    /\ raised' = "none"
    /\ IF middleware_built
       THEN /\ app_with_middleware' = build(middlewares', Endpoint)
            /\ assignments' = assignments + 1
            /\ chain_at_build' = middlewares'
       ELSE UNCHANGED <<app_with_middleware, assignments, chain_at_build>>
    /\ UNCHANGED <<app, middleware_built, startup_handlers, lifespan_sent,
                   build_skipped, reqVars>>
    /\ UNCHANGED <<routerVars, includeVars, lifespanVars, httpVars>>

\* FastASGI.add_middleware(middleware), also reached through @app.middleware()
add_middleware(m) ==
    /\ Len(middlewares) < MaxAppMiddleware
    /\ middlewares' = Append(middlewares, m)
    /\ raised' = IF middleware_built THEN "RuntimeError" ELSE "none"
    /\ UNCHANGED <<app, appVars, reqVars>>
    /\ UNCHANGED <<routerVars, includeVars, lifespanVars, httpVars>>

\* app.middleware_chain.add(middleware): the chain of the application, used directly
AppChainAdd(m) ==
    /\ Len(middlewares) < MaxAppMiddleware
    /\ middlewares' = Append(middlewares, m)
    /\ raised' = "none"
    /\ UNCHANGED <<app, appVars, reqVars>>
    /\ UNCHANGED <<routerVars, includeVars, lifespanVars, httpVars>>

\* _build_middleware_chain without the `if not self._middleware_built` guard
build_unguarded(built) == TRUE

\* the guard of _build_middleware_chain
must_build(built) == ~built

\* the state _build_middleware_chain leaves behind
BuildEffect ==
    IF must_build(middleware_built)
    THEN /\ app_with_middleware' = build(middlewares, Endpoint)
         /\ middleware_built' = TRUE
         /\ assignments' = assignments + 1
         /\ chain_at_build' = middlewares
         /\ UNCHANGED build_skipped
    ELSE /\ build_skipped' = TRUE
         /\ UNCHANGED <<app_with_middleware, middleware_built, assignments,
                        chain_at_build>>

\* await app._build_middleware_chain(), as the tests call it
_build_middleware_chain ==
    /\ BuildEffect
    /\ raised' = "none"
    /\ UNCHANGED <<middlewares, app, startup_handlers, lifespan_sent, reqVars>>
    /\ UNCHANGED <<routerVars, includeVars, lifespanVars, httpVars>>

\* a task awaits the handler the application holds in _app_with_middleware,
\* with a request of its own; calling None raises TypeError
call_app_with_middleware(r) ==
    /\ pc[r] = "idle"
    /\ IF app_with_middleware = None
       THEN /\ pc' = [pc EXCEPT ![r] = "done"]
            /\ ret' = [ret EXCEPT ![r] =
                         [tag |-> "error", by |-> "TypeError", level |-> 0,
                          req |-> None, status |-> 0]]
            /\ UNCHANGED <<callee, using>>
       ELSE /\ \E path \in AuthPaths :
                 /\ callee' = [callee EXCEPT ![r] =
                                 [handler |-> app_with_middleware,
                                  request |-> request_of(r, path)]]
                 /\ using' = [using EXCEPT ![r] =
                                [handler |-> app_with_middleware,
                                 from |-> chain_at_build,
                                 request |-> request_of(r, path)]]
            /\ pc' = [pc EXCEPT ![r] = "call"]
            /\ UNCHANGED ret
    /\ UNCHANGED <<stack, trace, sent, chainVars, appVars>>
    /\ UNCHANGED <<routerVars, includeVars, lifespanVars, httpVars>>

\* the body message is sent before the start message
SendResponse_body_first(status) ==
    <<[type |-> "http.response.body"],
      [type |-> "http.response.start", status |-> status]>>

\* _send_response: the two messages it sends for a response with the given status
SendResponse(status) ==
    <<[type |-> "http.response.start", status |-> status],
      [type |-> "http.response.body"]>>

\* Request(scope, body) in _handle_http: Request.__init__(self, scope) takes
\* the scope only, so the call with a body raises TypeError
Request_init(scope, body) ==
    [tag |-> "error", by |-> "TypeError", level |-> 0, req |-> None, status |-> 0]

\* the status of the response _handle_http sends: that of the response it
\* holds, or 500 from the except branch
status_of(result) == IF result.tag = "response" THEN result.status ELSE 500

\* _handle_http from the body to the first send: the construction of the
\* request raises, the except branch takes the error and makes the response
RequestFails(r) ==
    /\ pc[r] = "idle"
    /\ pc' = [pc EXCEPT ![r] = "start"]
    /\ ret' = [ret EXCEPT ![r] = Request_init(r, <<>>)]
    /\ using' = [using EXCEPT ![r] =
                   [handler |-> app_with_middleware, from |-> chain_at_build,
                    request |-> None]]
    /\ UNCHANGED <<callee, stack, trace, sent, chainVars, appVars>>
    /\ UNCHANGED <<routerVars, includeVars, lifespanVars, httpVars>>

\* app(scope, receive, send) with scope type http and the receive function of
\* the tests (one message): _handle_http up to its first send
HttpRequest(r) == RequestFails(r)

\* _send_response, first send: http.response.start
SendStart(r) ==
    /\ pc[r] = "start"
    /\ sent' = [sent EXCEPT ![r] = Append(@, SendResponse(status_of(ret[r]))[1])]
    /\ pc' = [pc EXCEPT ![r] = "body"]
    /\ UNCHANGED <<callee, stack, ret, trace, using, chainVars, appVars>>
    /\ UNCHANGED <<routerVars, includeVars, lifespanVars, httpVars>>

\* _send_response, second send: http.response.body; _handle_http returns
SendBody(r) ==
    /\ pc[r] = "body"
    /\ sent' = [sent EXCEPT ![r] = Append(@, SendResponse(status_of(ret[r]))[2])]
    /\ pc' = [pc EXCEPT ![r] = "done"]
    /\ UNCHANGED <<callee, stack, ret, trace, using, chainVars, appVars>>
    /\ UNCHANGED <<routerVars, includeVars, lifespanVars, httpVars>>

(***************************************************************************)
(* Strings                                                                 *)
(***************************************************************************)
\* s.rstrip(c)
RECURSIVE rstrip(_, _)
rstrip(s, c) ==
    IF s # <<>> /\ s[Len(s)] = c THEN rstrip(SubSeq(s, 1, Len(s) - 1), c) ELSE s

\* s.lstrip(c)
RECURSIVE lstrip(_, _)
lstrip(s, c) ==
    IF s # <<>> /\ s[1] = c THEN lstrip(SubSeq(s, 2, Len(s)), c) ELSE s

\* s.strip(c)
strip(s, c) == lstrip(rstrip(s, c), c)

\* s.count(c)
str_count(s, c) == Cardinality({i \in 1..Len(s) : s[i] = c})

\* c in s
contains(s, c) == \E i \in 1..Len(s) : s[i] = c

\* s.find(c, start), positions counted from 1 and 0 for "not found"
str_find(s, c, start) ==
    IF \E i \in start..Len(s) : s[i] = c
    THEN CHOOSE i \in start..Len(s) : s[i] = c /\ \A j \in start..(i - 1) : s[j] # c
    ELSE 0

\* removes one trailing slash only
normalize_once(path) ==
    IF Len(path) > 1 /\ path[Len(path)] = "/"
    THEN SubSeq(path, 1, Len(path) - 1)
    ELSE path

\* path.rstrip("/") or "/"
normalize(path) ==
    LET t == rstrip(path, "/") IN IF t = <<>> THEN <<"/">> ELSE t

\* the characters 0-9 of a character set
AsciiDigits == {"0", "1", "2", "3", "4", "5", "6", "7", "8", "9"}

\* the decimal digits of Unicode 14.0 (general category Nd), one row per
\* script, each row the digits of value zero to nine; a character outside
\* printable ASCII is written by its code point
DigitRows ==
    << <<"0", "1", "2", "3", "4", "5", "6", "7", "8", "9">>,
       <<"U+0660", "U+0661", "U+0662", "U+0663", "U+0664", "U+0665", "U+0666", "U+0667", "U+0668", "U+0669">>,
       <<"U+06F0", "U+06F1", "U+06F2", "U+06F3", "U+06F4", "U+06F5", "U+06F6", "U+06F7", "U+06F8", "U+06F9">>,
       <<"U+07C0", "U+07C1", "U+07C2", "U+07C3", "U+07C4", "U+07C5", "U+07C6", "U+07C7", "U+07C8", "U+07C9">>,
       <<"U+0966", "U+0967", "U+0968", "U+0969", "U+096A", "U+096B", "U+096C", "U+096D", "U+096E", "U+096F">>,
       <<"U+09E6", "U+09E7", "U+09E8", "U+09E9", "U+09EA", "U+09EB", "U+09EC", "U+09ED", "U+09EE", "U+09EF">>,
       <<"U+0A66", "U+0A67", "U+0A68", "U+0A69", "U+0A6A", "U+0A6B", "U+0A6C", "U+0A6D", "U+0A6E", "U+0A6F">>,
       <<"U+0AE6", "U+0AE7", "U+0AE8", "U+0AE9", "U+0AEA", "U+0AEB", "U+0AEC", "U+0AED", "U+0AEE", "U+0AEF">>,
       <<"U+0B66", "U+0B67", "U+0B68", "U+0B69", "U+0B6A", "U+0B6B", "U+0B6C", "U+0B6D", "U+0B6E", "U+0B6F">>,
       <<"U+0BE6", "U+0BE7", "U+0BE8", "U+0BE9", "U+0BEA", "U+0BEB", "U+0BEC", "U+0BED", "U+0BEE", "U+0BEF">>,
       <<"U+0C66", "U+0C67", "U+0C68", "U+0C69", "U+0C6A", "U+0C6B", "U+0C6C", "U+0C6D", "U+0C6E", "U+0C6F">>,
       <<"U+0CE6", "U+0CE7", "U+0CE8", "U+0CE9", "U+0CEA", "U+0CEB", "U+0CEC", "U+0CED", "U+0CEE", "U+0CEF">>,
       <<"U+0D66", "U+0D67", "U+0D68", "U+0D69", "U+0D6A", "U+0D6B", "U+0D6C", "U+0D6D", "U+0D6E", "U+0D6F">>,
       <<"U+0DE6", "U+0DE7", "U+0DE8", "U+0DE9", "U+0DEA", "U+0DEB", "U+0DEC", "U+0DED", "U+0DEE", "U+0DEF">>,
       <<"U+0E50", "U+0E51", "U+0E52", "U+0E53", "U+0E54", "U+0E55", "U+0E56", "U+0E57", "U+0E58", "U+0E59">>,
       <<"U+0ED0", "U+0ED1", "U+0ED2", "U+0ED3", "U+0ED4", "U+0ED5", "U+0ED6", "U+0ED7", "U+0ED8", "U+0ED9">>,
       <<"U+0F20", "U+0F21", "U+0F22", "U+0F23", "U+0F24", "U+0F25", "U+0F26", "U+0F27", "U+0F28", "U+0F29">>,
       <<"U+1040", "U+1041", "U+1042", "U+1043", "U+1044", "U+1045", "U+1046", "U+1047", "U+1048", "U+1049">>,
       <<"U+1090", "U+1091", "U+1092", "U+1093", "U+1094", "U+1095", "U+1096", "U+1097", "U+1098", "U+1099">>,
       <<"U+17E0", "U+17E1", "U+17E2", "U+17E3", "U+17E4", "U+17E5", "U+17E6", "U+17E7", "U+17E8", "U+17E9">>,
       <<"U+1810", "U+1811", "U+1812", "U+1813", "U+1814", "U+1815", "U+1816", "U+1817", "U+1818", "U+1819">>,
       <<"U+1946", "U+1947", "U+1948", "U+1949", "U+194A", "U+194B", "U+194C", "U+194D", "U+194E", "U+194F">>,
       <<"U+19D0", "U+19D1", "U+19D2", "U+19D3", "U+19D4", "U+19D5", "U+19D6", "U+19D7", "U+19D8", "U+19D9">>,
       <<"U+1A80", "U+1A81", "U+1A82", "U+1A83", "U+1A84", "U+1A85", "U+1A86", "U+1A87", "U+1A88", "U+1A89">>,
       <<"U+1A90", "U+1A91", "U+1A92", "U+1A93", "U+1A94", "U+1A95", "U+1A96", "U+1A97", "U+1A98", "U+1A99">>,
       <<"U+1B50", "U+1B51", "U+1B52", "U+1B53", "U+1B54", "U+1B55", "U+1B56", "U+1B57", "U+1B58", "U+1B59">>,
       <<"U+1BB0", "U+1BB1", "U+1BB2", "U+1BB3", "U+1BB4", "U+1BB5", "U+1BB6", "U+1BB7", "U+1BB8", "U+1BB9">>,
       <<"U+1C40", "U+1C41", "U+1C42", "U+1C43", "U+1C44", "U+1C45", "U+1C46", "U+1C47", "U+1C48", "U+1C49">>,
       <<"U+1C50", "U+1C51", "U+1C52", "U+1C53", "U+1C54", "U+1C55", "U+1C56", "U+1C57", "U+1C58", "U+1C59">>,
       <<"U+A620", "U+A621", "U+A622", "U+A623", "U+A624", "U+A625", "U+A626", "U+A627", "U+A628", "U+A629">>,
       <<"U+A8D0", "U+A8D1", "U+A8D2", "U+A8D3", "U+A8D4", "U+A8D5", "U+A8D6", "U+A8D7", "U+A8D8", "U+A8D9">>,
       <<"U+A900", "U+A901", "U+A902", "U+A903", "U+A904", "U+A905", "U+A906", "U+A907", "U+A908", "U+A909">>,
       <<"U+A9D0", "U+A9D1", "U+A9D2", "U+A9D3", "U+A9D4", "U+A9D5", "U+A9D6", "U+A9D7", "U+A9D8", "U+A9D9">>,
       <<"U+A9F0", "U+A9F1", "U+A9F2", "U+A9F3", "U+A9F4", "U+A9F5", "U+A9F6", "U+A9F7", "U+A9F8", "U+A9F9">>,
       <<"U+AA50", "U+AA51", "U+AA52", "U+AA53", "U+AA54", "U+AA55", "U+AA56", "U+AA57", "U+AA58", "U+AA59">>,
       <<"U+ABF0", "U+ABF1", "U+ABF2", "U+ABF3", "U+ABF4", "U+ABF5", "U+ABF6", "U+ABF7", "U+ABF8", "U+ABF9">>,
       <<"U+FF10", "U+FF11", "U+FF12", "U+FF13", "U+FF14", "U+FF15", "U+FF16", "U+FF17", "U+FF18", "U+FF19">>,
       <<"U+104A0", "U+104A1", "U+104A2", "U+104A3", "U+104A4", "U+104A5", "U+104A6", "U+104A7", "U+104A8", "U+104A9">>,
       <<"U+10D30", "U+10D31", "U+10D32", "U+10D33", "U+10D34", "U+10D35", "U+10D36", "U+10D37", "U+10D38", "U+10D39">>,
       <<"U+11066", "U+11067", "U+11068", "U+11069", "U+1106A", "U+1106B", "U+1106C", "U+1106D", "U+1106E", "U+1106F">>,
       <<"U+110F0", "U+110F1", "U+110F2", "U+110F3", "U+110F4", "U+110F5", "U+110F6", "U+110F7", "U+110F8", "U+110F9">>,
       <<"U+11136", "U+11137", "U+11138", "U+11139", "U+1113A", "U+1113B", "U+1113C", "U+1113D", "U+1113E", "U+1113F">>,
       <<"U+111D0", "U+111D1", "U+111D2", "U+111D3", "U+111D4", "U+111D5", "U+111D6", "U+111D7", "U+111D8", "U+111D9">>,
       <<"U+112F0", "U+112F1", "U+112F2", "U+112F3", "U+112F4", "U+112F5", "U+112F6", "U+112F7", "U+112F8", "U+112F9">>,
       <<"U+11450", "U+11451", "U+11452", "U+11453", "U+11454", "U+11455", "U+11456", "U+11457", "U+11458", "U+11459">>,
       <<"U+114D0", "U+114D1", "U+114D2", "U+114D3", "U+114D4", "U+114D5", "U+114D6", "U+114D7", "U+114D8", "U+114D9">>,
       <<"U+11650", "U+11651", "U+11652", "U+11653", "U+11654", "U+11655", "U+11656", "U+11657", "U+11658", "U+11659">>,
       <<"U+116C0", "U+116C1", "U+116C2", "U+116C3", "U+116C4", "U+116C5", "U+116C6", "U+116C7", "U+116C8", "U+116C9">>,
       <<"U+11730", "U+11731", "U+11732", "U+11733", "U+11734", "U+11735", "U+11736", "U+11737", "U+11738", "U+11739">>,
       <<"U+118E0", "U+118E1", "U+118E2", "U+118E3", "U+118E4", "U+118E5", "U+118E6", "U+118E7", "U+118E8", "U+118E9">>,
       <<"U+11950", "U+11951", "U+11952", "U+11953", "U+11954", "U+11955", "U+11956", "U+11957", "U+11958", "U+11959">>,
       <<"U+11C50", "U+11C51", "U+11C52", "U+11C53", "U+11C54", "U+11C55", "U+11C56", "U+11C57", "U+11C58", "U+11C59">>,
       <<"U+11D50", "U+11D51", "U+11D52", "U+11D53", "U+11D54", "U+11D55", "U+11D56", "U+11D57", "U+11D58", "U+11D59">>,
       <<"U+11DA0", "U+11DA1", "U+11DA2", "U+11DA3", "U+11DA4", "U+11DA5", "U+11DA6", "U+11DA7", "U+11DA8", "U+11DA9">>,
       <<"U+16A60", "U+16A61", "U+16A62", "U+16A63", "U+16A64", "U+16A65", "U+16A66", "U+16A67", "U+16A68", "U+16A69">>,
       <<"U+16AC0", "U+16AC1", "U+16AC2", "U+16AC3", "U+16AC4", "U+16AC5", "U+16AC6", "U+16AC7", "U+16AC8", "U+16AC9">>,
       <<"U+16B50", "U+16B51", "U+16B52", "U+16B53", "U+16B54", "U+16B55", "U+16B56", "U+16B57", "U+16B58", "U+16B59">>,
       <<"U+1D7CE", "U+1D7CF", "U+1D7D0", "U+1D7D1", "U+1D7D2", "U+1D7D3", "U+1D7D4", "U+1D7D5", "U+1D7D6", "U+1D7D7">>,
       <<"U+1D7D8", "U+1D7D9", "U+1D7DA", "U+1D7DB", "U+1D7DC", "U+1D7DD", "U+1D7DE", "U+1D7DF", "U+1D7E0", "U+1D7E1">>,
       <<"U+1D7E2", "U+1D7E3", "U+1D7E4", "U+1D7E5", "U+1D7E6", "U+1D7E7", "U+1D7E8", "U+1D7E9", "U+1D7EA", "U+1D7EB">>,
       <<"U+1D7EC", "U+1D7ED", "U+1D7EE", "U+1D7EF", "U+1D7F0", "U+1D7F1", "U+1D7F2", "U+1D7F3", "U+1D7F4", "U+1D7F5">>,
       <<"U+1D7F6", "U+1D7F7", "U+1D7F8", "U+1D7F9", "U+1D7FA", "U+1D7FB", "U+1D7FC", "U+1D7FD", "U+1D7FE", "U+1D7FF">>,
       <<"U+1E140", "U+1E141", "U+1E142", "U+1E143", "U+1E144", "U+1E145", "U+1E146", "U+1E147", "U+1E148", "U+1E149">>,
       <<"U+1E2F0", "U+1E2F1", "U+1E2F2", "U+1E2F3", "U+1E2F4", "U+1E2F5", "U+1E2F6", "U+1E2F7", "U+1E2F8", "U+1E2F9">>,
       <<"U+1E950", "U+1E951", "U+1E952", "U+1E953", "U+1E954", "U+1E955", "U+1E956", "U+1E957", "U+1E958", "U+1E959">>,
       <<"U+1FBF0", "U+1FBF1", "U+1FBF2", "U+1FBF3", "U+1FBF4", "U+1FBF5", "U+1FBF6", "U+1FBF7", "U+1FBF8", "U+1FBF9">> >>

\* what \d matches in a str pattern compiled without re.ASCII, and the digits
\* int() and float() read: the decimal digits of Unicode
Digits == {DigitRows[r][k] : r \in 1..Len(DigitRows), k \in 1..10}

\* [0-9a-f]
HexDigits == AsciiDigits \cup {"a", "b", "c", "d", "e", "f"}

\* the value of each decimal digit
DigitValue ==
    [c \in Digits |->
        CHOOSE v \in 0..9 : \E r \in 1..Len(DigitRows) : DigitRows[r][v + 1] = c]

\* the value of a digit of int(text, 16)
HexValue(c) ==
    IF c \in Digits THEN DigitValue[c]
    ELSE CASE c \in {"a", "A"} -> 10 [] c \in {"b", "B"} -> 11
           [] c \in {"c", "C"} -> 12 [] c \in {"d", "D"} -> 13
           [] c \in {"e", "E"} -> 14 [] c \in {"f", "F"} -> 15

\* the characters int() and float() strip from both ends of a text
Whitespace ==
    {"\t", "\n", "U+000B", "\f", "\r", " ", "U+0085", "U+00A0", "U+1680",
     "U+2000", "U+2001", "U+2002", "U+2003", "U+2004", "U+2005", "U+2006",
     "U+2007", "U+2008", "U+2009", "U+200A", "U+2028", "U+2029", "U+202F",
     "U+205F", "U+3000"}

\* the letters of ASCII
Alphabet ==
    [lower |-> <<"a", "b", "c", "d", "e", "f", "g", "h", "i", "j", "k", "l", "m",
                 "n", "o", "p", "q", "r", "s", "t", "u", "v", "w", "x", "y", "z">>,
     upper |-> <<"A", "B", "C", "D", "E", "F", "G", "H", "I", "J", "K", "L", "M",
                 "N", "O", "P", "Q", "R", "S", "T", "U", "V", "W", "X", "Y", "Z">>]

\* c.upper() for the letters of ASCII and for the characters str.upper()
\* leaves as they are: the other characters of ASCII, the decimal digits and
\* the whitespace
UpperOf ==
    [c \in {Alphabet.lower[i] : i \in 1..26} \cup {Alphabet.upper[i] : i \in 1..26}
              \cup {"!", "#", "$", "%", "&", "'", "(", ")", "*", "+", ",", "-",
                    ".", "/", ":", ";", "<", "=", ">", "?", "@", "[", "\\", "]",
                    "^", "_", "{", "|", "}", "~"}
              \cup Digits \cup Whitespace |->
        IF \E i \in 1..26 : Alphabet.lower[i] = c
        THEN Alphabet.upper[CHOOSE i \in 1..26 : Alphabet.lower[i] = c]
        ELSE c]

\* s.strip(chars)
RECURSIVE strip_chars(_, _)
strip_chars(s, chars) ==
    IF s # <<>> /\ s[1] \in chars THEN strip_chars(Tail(s), chars)
    ELSE IF s # <<>> /\ s[Len(s)] \in chars
    THEN strip_chars(SubSeq(s, 1, Len(s) - 1), chars)
    ELSE s

\* s.replace(sub, "")
RECURSIVE str_remove(_, _)
str_remove(s, sub) ==
    IF Len(s) < Len(sub) THEN s
    ELSE IF SubSeq(s, 1, Len(sub)) = sub
    THEN str_remove(SubSeq(s, Len(sub) + 1, Len(s)), sub)
    ELSE <<s[1]>> \o str_remove(Tail(s), sub)

(***************************************************************************)
(* Route: the pattern compiler                                             *)
(***************************************************************************)
STR == <<"s", "t", "r">>
INT == <<"i", "n", "t">>
FLOAT == <<"f", "l", "o", "a", "t">>
UUID == <<"u", "u", "i", "d">>
PATH == <<"p", "a", "t", "h">>
REQUEST == <<"r", "e", "q", "u", "e", "s", "t">>

Failure(e) == [ok |-> FALSE, error |-> e]

\* a kind name that is not known is taken as str
_get_param_type_lenient(type_name) ==
    CASE type_name = INT -> [ok |-> TRUE, type |-> "int"]
      [] type_name = FLOAT -> [ok |-> TRUE, type |-> "float"]
      [] type_name = UUID -> [ok |-> TRUE, type |-> "uuid"]
      [] type_name = PATH -> [ok |-> TRUE, type |-> "path"]
      [] OTHER -> [ok |-> TRUE, type |-> "str"]

\* Route._get_param_type
_get_param_type(type_name) ==
    CASE type_name = STR -> [ok |-> TRUE, type |-> "str"]
      [] type_name = INT -> [ok |-> TRUE, type |-> "int"]
      [] type_name = FLOAT -> [ok |-> TRUE, type |-> "float"]
      [] type_name = UUID -> [ok |-> TRUE, type |-> "uuid"]
      [] type_name = PATH -> [ok |-> TRUE, type |-> "path"]
      [] OTHER -> Failure("Unsupported parameter type")

\* Route._parse_parameter_specification
_parse_parameter_specification(param_spec) ==
    IF contains(param_spec, ":")
    THEN LET c == str_find(param_spec, ":", 1)
             t == _get_param_type(SubSeq(param_spec, c + 1, Len(param_spec)))
         IN IF t.ok
            THEN [ok |-> TRUE, name |-> SubSeq(param_spec, 1, c - 1), type |-> t.type]
            ELSE t
    ELSE [ok |-> TRUE, name |-> param_spec, type |-> "str"]

\* The pieces of the pattern text: "group" is the capture group of a
\* parameter, "lit" a character written with a backslash in front of it,
\* "raw" a character written as it is.  The pieces of the compiled pattern:
\* "group", "lit" (the character itself), "class" (one character of a
\* class), "backref" (the text of group n) and "end" (the end of the text).
Piece(kind, ch, cls) == [kind |-> kind, ch |-> ch, cls |-> cls, n |-> 0]

\* Route._get_regex_for_parameter_type: the capture group of a parameter
_get_regex_for_parameter_type(param_type) ==
    Piece("group", "", IF param_type \in {"int", "float", "uuid", "path"}
                       THEN param_type ELSE "str")

\* the characters _process_literal_character escapes: r".^$+?{}[]|()"
EscapedChars == {".", "^", "$", "+", "?", "{", "}", "[", "]", "|", "(", ")"}

\* Route._process_literal_character: a character of EscapedChars goes into
\* the pattern with a backslash, every other character (a backslash too) as
\* it is
_process_literal_character(char) ==
    IF char \in EscapedChars
    THEN Piece("lit", char, "")
    ELSE Piece("raw", char, "")

\* param_types[param_name] = param_type on an insertion-ordered dict
dict_set(d, k, v) ==
    IF \E i \in 1..Len(d) : d[i].name = k
    THEN [i \in 1..Len(d) |-> IF d[i].name = k THEN [name |-> k, type |-> v] ELSE d[i]]
    ELSE Append(d, [name |-> k, type |-> v])

\* the while loop of _compile_path_pattern, with _process_pattern_segment and
\* _process_path_parameter
RECURSIVE compile_from(_, _, _, _)
compile_from(pattern, index, regex_parts, param_types) ==
    IF index > Len(pattern)
    THEN [ok |-> TRUE, regex_parts |-> regex_parts, param_types |-> param_types]
    ELSE IF pattern[index] = "{"
    THEN LET end == str_find(pattern, "}", index)
         IN IF end = 0
            THEN Failure("Unclosed parameter")
            ELSE LET p == _parse_parameter_specification(
                              SubSeq(pattern, index + 1, end - 1))
                 IN IF ~p.ok THEN p
                    ELSE compile_from(pattern, end + 1,
                            Append(regex_parts, _get_regex_for_parameter_type(p.type)),
                            dict_set(param_types, p.name, p.type))
    ELSE compile_from(pattern, index + 1,
            Append(regex_parts, _process_literal_character(pattern[index])),
            param_types)

\* Route._build_final_regex_pattern: "^" + "".join(regex_parts) + "$"; the
\* "^" is the start re.match has anyway
_build_final_regex_pattern(regex_parts) ==
    Append(regex_parts, Piece("raw", "$", ""))

\* the piece a backslash makes of the character written after it, for the
\* characters the model's templates hold
escape(c) ==
    CASE c = "d" -> Piece("class", "", "digit")
      [] c = "a" -> Piece("lit", "U+0007", "")
      [] c \in {"/", "$", "\\"} \cup (Digits \ AsciiDigits) -> Piece("lit", c, "")

OctDigits == {"0", "1", "2", "3", "4", "5", "6", "7"}

\* chr(int(digits, 8)) for the octal escapes the model's templates hold
octal_char(digits) == CASE digits = <<"1", "1", "1">> -> "I"

\* text[k] is a character of chars, put into the pattern unescaped
IsRaw(text, k, chars) ==
    k <= Len(text) /\ text[k].kind = "raw" /\ text[k].ch \in chars

\* the state of the parse: the pieces read so far, the position of the next
\* character and the number of groups opened so far
Parse(parsed, i, groups) == [ok |-> TRUE, parsed |-> parsed, i |-> i, groups |-> groups]

\* what re.compile reads at position i of the pattern text: a backslash
\* takes the character behind it, whoever wrote that character: "\d" is a
\* digit, "\1" the text of group 1, "\$" a dollar sign and no end of text,
\* "\(" a parenthesis that leaves the ")" of the group unbalanced
re_item(text, i, parsed, groups) ==
    IF text[i].kind = "group" THEN Parse(Append(parsed, text[i]), i + 1, groups + 1)
    ELSE IF text[i].kind = "lit" THEN Parse(Append(parsed, text[i]), i + 1, groups)
    ELSE IF text[i].ch = "$"
    THEN Parse(Append(parsed, Piece("end", "", "")), i + 1, groups)
    ELSE IF text[i].ch # "\\"
    THEN Parse(Append(parsed, Piece("lit", text[i].ch, "")), i + 1, groups)
    ELSE LET next == text[i + 1]
         IN IF next.kind = "group"
            THEN Failure("re.error: unbalanced parenthesis")
            ELSE IF next.kind = "lit"
            THEN \* "\\" and then the character, now without its backslash
                 IF next.ch = ")"
                 THEN Failure("re.error: unbalanced parenthesis")
                 ELSE Parse(parsed \o
                              <<Piece("lit", "\\", ""),
                                CASE next.ch = "." -> Piece("class", "", "any")
                                  [] next.ch \in {"}", "]"} -> Piece("lit", next.ch, "")>>,
                            i + 2, groups)
            ELSE IF next.ch \in AsciiDigits \ {"0"}
            THEN IF IsRaw(text, i + 2, OctDigits) /\ IsRaw(text, i + 3, OctDigits)
                    /\ next.ch \in OctDigits
                 THEN Parse(Append(parsed,
                                   Piece("lit", octal_char(<<next.ch, text[i + 2].ch,
                                                             text[i + 3].ch>>), "")),
                            i + 4, groups)
                 ELSE LET two == IsRaw(text, i + 2, AsciiDigits)
                          group == IF two
                                   THEN 10 * DigitValue[next.ch]
                                           + DigitValue[text[i + 2].ch]
                                   ELSE DigitValue[next.ch]
                      IN IF group <= groups
                         THEN Parse(Append(parsed, [Piece("backref", "", "")
                                                      EXCEPT !.n = group]),
                                    IF two THEN i + 3 ELSE i + 2, groups)
                         ELSE Failure("re.error: invalid group reference")
            ELSE Parse(Append(parsed, escape(next.ch)), i + 2, groups)

\* what re.compile makes of the pattern text, item by item
RECURSIVE re_parse(_, _)
re_parse(text, state) ==
    IF ~state.ok THEN state
    ELSE IF state.i > Len(text) THEN [ok |-> TRUE, path_regex |-> state.parsed]
    ELSE re_parse(text, re_item(text, state.i, state.parsed, state.groups))

\* re.compile(regex_pattern)
re_compile(regex_pattern) == re_parse(regex_pattern, Parse(<<>>, 1, 0))

\* the end of Route._compile_path_pattern: the compiled pattern and the
\* parameter types
compiled_pattern(compiled, param_types) ==
    IF ~compiled.ok THEN compiled
    ELSE [ok |-> TRUE, path_regex |-> compiled.path_regex, param_types |-> param_types]

\* Route._compile_path_pattern behind its while loop
compile_parts(parts) ==
    IF ~parts.ok THEN parts
    ELSE compiled_pattern(re_compile(_build_final_regex_pattern(parts.regex_parts)),
                          parts.param_types)

\* Route._compile_path_pattern
_compile_path_pattern(path) ==
    IF contains(path, "*")
    THEN Failure("Wildcard patterns are no longer supported")
    ELSE compile_parts(compile_from(path, 1, <<>>, <<>>))

\* the slashes of the path as given, plus one
_count_path_segments_unstripped(path) ==
    IF path = <<"/">> \/ path = <<>> THEN 1 ELSE str_count(path, "/") + 1

\* Route._count_path_segments
_count_path_segments(path) ==
    IF path = <<"/">> \/ path = <<>> THEN 1
    ELSE IF path[Len(path)] = "/"
    THEN LET clean_path == lstrip(path, "/")
         IN IF clean_path = <<>> THEN 1 ELSE str_count(clean_path, "/") + 1
    ELSE LET clean_path == strip(path, "/")
         IN IF clean_path = <<>> THEN 1 ELSE str_count(clean_path, "/") + 1

(***************************************************************************)
(* The anchored regular expression: re.match of "^" parts "$", greedy,     *)
(* with backtracking in the order of Python's re.                          *)
(***************************************************************************)
InClass(cls, c) ==
    CASE cls = "digit" -> c \in Digits
      [] cls = "nonslash" -> c # "/"
      [] cls = "any" -> c # "\n"

\* the length of the longest run of characters of the class from pos
run_length(s, pos, cls) ==
    IF \E k \in pos..Len(s) : ~InClass(cls, s[k])
    THEN (CHOOSE k \in pos..Len(s) :
              ~InClass(cls, s[k]) /\ \A j \in pos..(k - 1) : InClass(cls, s[j])) - pos
    ELSE Len(s) + 1 - pos

\* hi, hi - 1, .., lo
Down(hi, lo) == [i \in 1..(hi - lo + 1) |-> hi + 1 - i]

\* [0-9a-f]{8}-[0-9a-f]{4}-[0-9a-f]{4}-[0-9a-f]{4}-[0-9a-f]{12} at pos
IsUuidAt(s, pos) ==
    /\ pos + 35 <= Len(s)
    /\ \A k \in 0..35 :
         IF k \in {8, 13, 18, 23} THEN s[pos + k] = "-" ELSE s[pos + k] \in HexDigits

\* the lengths a capture group tries at pos, in the order the engine tries them
Candidates(cls, s, pos) ==
    CASE cls = "str" -> Down(run_length(s, pos, "nonslash"), 1)
      [] cls = "int" -> Down(run_length(s, pos, "digit"), 1)
      [] cls = "path" -> Down(run_length(s, pos, "any"), 0)
      [] cls = "uuid" -> IF IsUuidAt(s, pos) THEN <<36>> ELSE <<>>
      [] cls = "float" ->
            LET d == run_length(s, pos, "digit")
                f == IF d >= 1 /\ pos + d <= Len(s) /\ s[pos + d] = "."
                     THEN run_length(s, pos + d + 1, "digit") ELSE 0
            IN [i \in 1..f |-> d + 1 + (f + 1 - i)] \o Down(d, 1)

NoMatch == [ok |-> FALSE, groups |-> <<>>]

\* the pieces of s from position pos are those of t
StartsWith(s, pos, t) ==
    pos + Len(t) - 1 <= Len(s) /\ SubSeq(s, pos, pos + Len(t) - 1) = t

\* the characters a piece that is no group takes at pos, -1 when it does not
\* match there; caps are the texts the groups before it have captured
taken(part, s, pos, caps) ==
    CASE part.kind = "end" ->
            IF pos = Len(s) + 1 \/ (pos = Len(s) /\ s[pos] = "\n") THEN 0 ELSE -1
      [] part.kind = "lit" ->
            IF pos <= Len(s) /\ s[pos] = part.ch THEN 1 ELSE -1
      [] part.kind = "class" ->
            IF pos <= Len(s) /\ InClass(part.cls, s[pos]) THEN 1 ELSE -1
      [] part.kind = "backref" ->
            IF StartsWith(s, pos, caps[part.n]) THEN Len(caps[part.n]) ELSE -1

\* the pattern from piece i on against s from pos on; caps are the texts the
\* groups before piece i have captured
RECURSIVE re_match_from(_, _, _, _, _)
RECURSIVE try_lengths(_, _, _, _, _, _, _)
re_match_from(parts, i, s, pos, caps) ==
    IF i > Len(parts) THEN [ok |-> TRUE, groups |-> caps]
    ELSE IF parts[i].kind = "group"
    THEN try_lengths(parts, i, s, pos, caps, Candidates(parts[i].cls, s, pos), 1)
    ELSE LET n == taken(parts[i], s, pos, caps)
         IN IF n < 0 THEN NoMatch
            ELSE re_match_from(parts, i + 1, s, pos + n, caps)

try_lengths(parts, i, s, pos, caps, cands, j) ==
    IF j > Len(cands) THEN NoMatch
    ELSE LET rest == re_match_from(parts, i + 1, s, pos + cands[j],
                                   Append(caps, SubSeq(s, pos, pos + cands[j] - 1)))
         IN IF rest.ok THEN rest
            ELSE try_lengths(parts, i, s, pos, caps, cands, j + 1)

\* self.path_regex.match(path)
re_match(path_regex, path) == re_match_from(path_regex, 1, path, 1, <<>>)

(***************************************************************************)
(* Conversions of captured text (Route._extract_path_parameters)           *)
(***************************************************************************)
\* the text behind an optional sign
unsigned(text) ==
    IF text # <<>> /\ text[1] \in {"+", "-"} THEN Tail(text) ELSE text

\* the text is made of digits of the set, with single underscores between
\* two digits only
grouped(text, digits) ==
    /\ text # <<>>
    /\ \A i \in 1..Len(text) :
         \/ text[i] \in digits
         \/ /\ text[i] = "_"
            /\ 1 < i /\ i < Len(text)
            /\ text[i - 1] \in digits /\ text[i + 1] \in digits

\* the number the digits write in the base
RECURSIVE value_of(_, _)
value_of(digits, base) ==
    IF digits = <<>> THEN 0
    ELSE base * value_of(SubSeq(digits, 1, Len(digits) - 1), base)
           + HexValue(digits[Len(digits)])

\* sys.int_info.default_max_str_digits: the most digits int() converts
MaxStrDigits == 4300

\* int(raw) does not raise: whitespace around, a sign, decimal digits of any
\* script, underscores between digits, and no more digits than MaxStrDigits
int_ok(raw) ==
    /\ grouped(unsigned(strip_chars(raw, Whitespace)), Digits)
    /\ Cardinality({i \in 1..Len(raw) : raw[i] \in Digits}) <= MaxStrDigits

\* int(raw)
to_int(raw) ==
    LET text == strip_chars(raw, Whitespace)
        n == value_of(SelectSeq(unsigned(text), LAMBDA c : c # "_"), 10)
    IN IF text[1] = "-" THEN 0 - n ELSE n

\* the index of the first character of the text that is in the set, or 0
first_of(text, chars) ==
    IF \E i \in 1..Len(text) : text[i] \in chars
    THEN CHOOSE i \in 1..Len(text) :
             text[i] \in chars /\ \A j \in 1..(i - 1) : text[j] \notin chars
    ELSE 0

\* the text is the word, in any case
is_word(text, word) ==
    /\ Len(text) = Len(word)
    /\ \A i \in 1..Len(word) : text[i] \in {word[i], UpperOf[word[i]]}

\* a text float() does not read
NotFloat == [ok |-> FALSE, special |-> "", sign |-> 1, digits |-> <<>>, power |-> 0]

\* the digits before and after the point and the exponent of a number: one
\* digit at least, and the digits and the power of ten of the number without
\* leading and trailing zeros
float_digits(whole, frac, exponent, sign) ==
    IF /\ \A i \in 1..Len(whole) : whole[i] \in Digits
       /\ \A i \in 1..Len(frac) : frac[i] \in Digits
       /\ Len(whole) + Len(frac) >= 1
       /\ grouped(unsigned(exponent), Digits)
    THEN LET all == [i \in 1..(Len(whole) + Len(frac)) |->
                        DigitValue[(whole \o frac)[i]]]
             digits == rstrip(lstrip(all, 0), 0)
         IN [ok |-> TRUE, special |-> "", sign |-> sign, digits |-> digits,
             power |-> IF digits = <<>> THEN 0
                       ELSE to_int(exponent) - Len(frac)
                              + (Len(all) - Len(rstrip(all, 0)))]
    ELSE NotFloat

\* the mantissa is cut at its first point
float_point(mantissa, dot, exponent, sign) ==
    float_digits(IF dot = 0 THEN mantissa ELSE SubSeq(mantissa, 1, dot - 1),
                 IF dot = 0 THEN <<>> ELSE SubSeq(mantissa, dot + 1, Len(mantissa)),
                 exponent, sign)

\* the text behind the sign: inf, infinity or nan in any case, or digits with
\* at most one point and an exponent, with single underscores between two
\* digits only; the number is cut at its first "e" or "E", and a number
\* without one has the exponent 0
float_body(body, plain, e, sign) ==
    IF is_word(body, <<"i", "n", "f">>)
         \/ is_word(body, <<"i", "n", "f", "i", "n", "i", "t", "y">>)
    THEN [ok |-> TRUE, special |-> "inf", sign |-> sign, digits |-> <<>>, power |-> 0]
    ELSE IF is_word(body, <<"n", "a", "n">>)
    THEN [ok |-> TRUE, special |-> "nan", sign |-> 1, digits |-> <<>>, power |-> 0]
    ELSE IF \E i \in 1..Len(body) :
                body[i] = "_" /\ ~(/\ 1 < i /\ i < Len(body)
                                   /\ body[i - 1] \in Digits /\ body[i + 1] \in Digits)
    THEN NotFloat
    ELSE IF e = 0
    THEN float_point(plain, first_of(plain, {"."}), <<"0">>, sign)
    ELSE float_point(SubSeq(plain, 1, e - 1),
                     first_of(SubSeq(plain, 1, e - 1), {"."}),
                     SubSeq(plain, e + 1, Len(plain)), sign)

\* float(raw) read: whitespace around and a sign taken off
float_parts(raw) ==
    LET text == strip_chars(raw, Whitespace)
        plain == SelectSeq(unsigned(text), LAMBDA c : c # "_")
    IN float_body(unsigned(text), plain, first_of(plain, {"e", "E"}),
                  IF text # <<>> /\ text[1] = "-" THEN -1 ELSE 1)

\* float(raw) does not raise
float_ok(raw) == float_parts(raw).ok

\* the value of a text float() reads, for the numbers a double holds exactly
\* as written: at most 15 significant digits, between 1e-300 and 1e300;
\* sign * digits * 10^power
float_value(parts) ==
    CASE parts.special # "" \/ parts.digits = <<>> ->
            [special |-> parts.special, sign |-> parts.sign,
             digits |-> <<>>, power |-> 0]
      [] /\ parts.special = "" /\ parts.digits # <<>>
         /\ Len(parts.digits) <= 15
         /\ parts.power + Len(parts.digits) - 1 \in -300..300 ->
            [special |-> "", sign |-> parts.sign,
             digits |-> parts.digits, power |-> parts.power]

\* float(raw)
to_float(raw) == float_value(float_parts(raw))

\* float(raw_value) in _extract_path_parameters: the value, or the ValueError
float_result(parts) ==
    IF parts.ok
    THEN [ok |-> TRUE, value |-> [t |-> "float", v |-> float_value(parts)]]
    ELSE Failure("ValueError")

\* hex of uuid.UUID.__init__ before int(hex, 16): "urn:" and "uuid:" taken
\* out, braces stripped, hyphens taken out
uuid_text(raw) ==
    SelectSeq(strip_chars(str_remove(str_remove(raw, <<"u", "r", "n", ":">>),
                                     <<"u", "u", "i", "d", ":">>),
                          {"{", "}"}),
              LAMBDA c : c # "-")

\* the digits int(hex, 16) reads: whitespace around, a sign, "0x" or "0X" and
\* one underscore behind it taken off
hex_body(hex) ==
    LET body == unsigned(strip_chars(hex, Whitespace))
        rest == IF /\ Len(body) >= 2 /\ body[1] \in Digits /\ DigitValue[body[1]] = 0
                   /\ body[2] \in {"x", "X"}
                THEN SubSeq(body, 3, Len(body)) ELSE body
    IN IF rest # body /\ rest # <<>> /\ rest[1] = "_" THEN Tail(rest) ELSE rest

\* uuid.UUID(raw) does not raise: 32 characters that int(hex, 16) reads
uuid_ok(raw) ==
    /\ Len(uuid_text(raw)) = 32
    /\ grouped(hex_body(uuid_text(raw)),
               Digits \cup HexDigits \cup {"A", "B", "C", "D", "E", "F"})

\* uuid.UUID(raw).hex: the number read, as 32 hexadecimal digits
hex_of(raw) ==
    LET read == SelectSeq(hex_body(uuid_text(raw)), LAMBDA c : c # "_")
        pad == 32 - Len(read)
        HexChars == <<"0", "1", "2", "3", "4", "5", "6", "7",
                      "8", "9", "a", "b", "c", "d", "e", "f">>
    IN [i \in 1..32 |-> IF i <= pad THEN "0" ELSE HexChars[HexValue(read[i - pad]) + 1]]

\* one iteration of the loop of _extract_path_parameters: the converted value
\* of a captured text, or the ValueError of the conversion
convert(param_type, raw_value) ==
    CASE param_type = "int" ->
            IF int_ok(raw_value)
            THEN [ok |-> TRUE, value |-> [t |-> "int", v |-> to_int(raw_value)]]
            ELSE Failure("ValueError")
      [] param_type = "float" -> float_result(float_parts(raw_value))
      [] param_type = "uuid" ->
            IF uuid_ok(raw_value)
            THEN [ok |-> TRUE, value |-> [t |-> "uuid", v |-> hex_of(raw_value)]]
            ELSE Failure("ValueError")
      [] OTHER -> [ok |-> TRUE, value |-> [t |-> "str", v |-> raw_value]]

NoParams == [ok |-> FALSE, params |-> <<>>]

\* the conversion error is not caught
_extract_path_parameters_uncaught(route, groups) ==
    LET n == Len(route.param_types)
        conv(i) == convert(route.param_types[i].type, groups[i])
    IN IF \E i \in 1..n : ~conv(i).ok
       THEN [ok |-> FALSE, params |-> <<>>, error |-> "ValueError"]
       ELSE [ok |-> TRUE,
             params |-> [i \in 1..n |->
                           [name |-> route.param_types[i].name, value |-> conv(i).value]]]

\* Route._extract_path_parameters: key i of param_types takes group i
_extract_path_parameters(route, groups) ==
    LET n == Len(route.param_types)
        conv(i) == convert(route.param_types[i].type, groups[i])
    IN IF \E i \in 1..n : ~conv(i).ok
       THEN NoParams
       ELSE [ok |-> TRUE,
             params |-> [i \in 1..n |->
                           [name |-> route.param_types[i].name, value |-> conv(i).value]]]

\* method.upper()
upper(method) == [i \in 1..Len(method) |-> UpperOf[method[i]]]

\* the segment pre-check of Route.matches
segment_match(route, path) ==
    LET request_segment_count == _count_path_segments(path)
        normalized_request_segments == _count_path_segments(normalize(path))
    IN \/ request_segment_count = route.segment_count
       \/ normalized_request_segments = route.segment_count
       \/ (request_segment_count > route.segment_count /\ route.has_path_parameter)

\* the normalized path is tried before the raw path
matches_normalized_first(route, path, method) ==
    IF upper(method) \notin route.methods THEN NoParams
    ELSE IF ~segment_match(route, path) THEN NoParams
    ELSE LET raw == re_match(route.path_regex, path)
             normalized == re_match(route.path_regex, normalize(path))
         IN IF normalized.ok
            THEN _extract_path_parameters(route, normalized.groups)
            ELSE IF route.has_path_parameter /\ raw.ok
            THEN _extract_path_parameters(route, raw.groups)
            ELSE NoParams

\* Route.matches
matches(route, path, method) ==
    IF upper(method) \notin route.methods THEN NoParams
    ELSE IF ~segment_match(route, path) THEN NoParams
    ELSE LET raw == re_match(route.path_regex, path)
             normalized == re_match(route.path_regex, normalize(path))
         IN IF route.has_path_parameter /\ raw.ok
            THEN _extract_path_parameters(route, raw.groups)
            ELSE IF ~normalized.ok THEN NoParams
            ELSE _extract_path_parameters(route, normalized.groups)

(***************************************************************************)
(* Route construction                                                      *)
(***************************************************************************)
\* the method names the model's routes and requests use
GET == <<"G", "E", "T">>
POST == <<"P", "O", "S", "T">>

ValidMethods ==
    {GET, POST, <<"P", "U", "T">>, <<"D", "E", "L", "E", "T", "E">>,
     <<"P", "A", "T", "C", "H">>, <<"H", "E", "A", "D">>,
     <<"O", "P", "T", "I", "O", "N", "S">>}

\* Route._invalid_http_methods
_invalid_http_methods(methods) == methods \ ValidMethods

\* always the default priority
set_priority_default(priority) == 0

\* self.priority = priority
set_priority(priority) == priority

\* the names of sig.parameters, in order
handler_params(handler) == [i \in 1..Len(handler) |-> handler[i].name]

\* the annotation of a parameter of the handler
annotation_of(handler, name) ==
    LET i == CHOOSE i \in 1..Len(handler) : handler[i].name = name
    IN handler[i].annotation

param_type_of(param_types, name) ==
    LET i == CHOOSE i \in 1..Len(param_types) : param_types[i].name = name
    IN param_types[i].type

\* Route._validate_parameter_types: TRUE when no annotation disagrees
_validate_parameter_types(handler, param_types, expected_path_params) ==
    \A k \in 1..Len(expected_path_params) :
        LET annotation == annotation_of(handler, expected_path_params[k])
            route_param_type == param_type_of(param_types, expected_path_params[k])
        IN annotation # "empty" =>
             CASE route_param_type = "int" -> annotation = "int"
               [] route_param_type = "float" -> annotation = "float"
               [] route_param_type = "uuid" -> annotation = "UUID"
               [] OTHER -> annotation \in {"str", "NoneType"}

\* route_params - handler_path_params
missing_in_handler(route_params, handler_path_params) ==
    route_params \ handler_path_params

\* the parameters of the handler are not looked at
missing_in_route_ignored(route_params, handler_path_params) == {}

\* handler_path_params - route_params
missing_in_route(route_params, handler_path_params) ==
    handler_path_params \ route_params

\* Route.__init__ with _inspect_handler_signature and
\* _validate_parameter_consistency
Route(path, handler, methods, priority) ==
    LET self_path == normalize(path)
        self_methods == IF methods = {} THEN {GET} ELSE methods
        compiled == _compile_path_pattern(self_path)
        names == handler_params(handler)
        handler_path_params == SelectSeq(names, LAMBDA p : p # REQUEST)
        keys == {compiled.param_types[i].name : i \in 1..Len(compiled.param_types)}
        expected_path_params == SelectSeq(handler_path_params, LAMBDA p : p \in keys)
        handler_set == {handler_path_params[i] : i \in 1..Len(handler_path_params)}
    IN IF _invalid_http_methods(self_methods) # {}
       THEN Failure("Invalid HTTP methods")
       ELSE IF ~compiled.ok THEN compiled
       ELSE IF missing_in_handler(keys, handler_set) # {}
       THEN Failure("handler function does not have corresponding parameters")
       ELSE IF missing_in_route(keys, handler_set) # {}
       THEN Failure("Handler function expects path parameters")
       ELSE IF ~_validate_parameter_types(handler, compiled.param_types,
                                          expected_path_params)
       THEN Failure("type mismatch")
       ELSE [ok |-> TRUE,
             route |-> [path |-> self_path,
                        handler |-> handler,
                        methods |-> self_methods,
                        priority |-> set_priority(priority),
                        path_regex |-> compiled.path_regex,
                        param_types |-> compiled.param_types,
                        segment_count |-> _count_path_segments(self_path),
                        has_path_parameter |->
                            \E i \in 1..Len(compiled.param_types) :
                                compiled.param_types[i].type = "path",
                        expects_request |-> \E i \in 1..Len(names) : names[i] = REQUEST,
                        handler_path_params |-> handler_path_params,
                        expected_path_params |-> expected_path_params]]

(***************************************************************************)
(* The router: routes in registration order, registration and lookup.      *)
(***************************************************************************)
PathChars == {"/", "1"}

\* request paths: every text over PathChars of at most MaxPathLen characters
\* that starts with a slash
RequestPaths ==
    {s \in UNION {[1..n -> PathChars] : n \in 1..MaxPathLen} : s[1] = "/"}

RequestMethods == {GET, <<"p", "o", "s", "t">>}

\* priority=... of a registration; 0 is the default
Priorities == {0, 5}

Param(name, annotation) == [name |-> name, annotation |-> annotation]

\* the registrations the model draws from (template, handler signature,
\* methods): "/1", "/1/", "/{x}", "/{n:int}", "/1/{p:path}", "/" and the
\* rejected "/1/*"
RouteDefs ==
    { [path |-> <<"/", "1">>, handler |-> <<>>, methods |-> {}],
      [path |-> <<"/", "1", "/">>,
       handler |-> <<Param(REQUEST, "empty")>>, methods |-> {GET, POST}],
      [path |-> <<"/", "{", "x", "}">>,
       handler |-> <<Param(<<"x">>, "empty")>>, methods |-> {}],
      [path |-> <<"/", "{", "n", ":", "i", "n", "t", "}">>,
       handler |-> <<Param(REQUEST, "empty"), Param(<<"n">>, "int")>>,
       methods |-> {GET}],
      [path |-> <<"/", "1", "/", "{", "p", ":", "p", "a", "t", "h", "}">>,
       handler |-> <<Param(<<"p">>, "str")>>, methods |-> {}],
      [path |-> <<"/">>, handler |-> <<>>, methods |-> {GET}],
      [path |-> <<"/", "1", "/", "*">>, handler |-> <<>>, methods |-> {GET}] }

\* the registrations of the trailing-slash lookups: "/1", "/1/", "/{x}" and
\* "/1/{p:path}" of RouteDefs, "/{p:path}/1" and "//1"
SlashDefs ==
    {d \in RouteDefs :
        d.path \in { <<"/", "1">>, <<"/", "1", "/">>, <<"/", "{", "x", "}">>,
                     <<"/", "1", "/", "{", "p", ":", "p", "a", "t", "h", "}">> }} \cup
    { [path |-> <<"/", "{", "p", ":", "p", "a", "t", "h", "}", "/", "1">>,
       handler |-> <<Param(<<"p">>, "empty")>>, methods |-> {}],
      [path |-> <<"/", "/", "1">>, handler |-> <<>>, methods |-> {}] }

\* registration of a route on the router: the Route is constructed and, when
\* the construction succeeds, appended to the collection
add_route(path, handler, methods, priority) ==
    /\ Len(routes) < MaxRoutes
    /\ LET r == Route(path, handler, methods, priority)
       IN IF r.ok
          THEN /\ routes' = Append(routes, r.route)
               /\ registered' = Append(registered,
                                       [path |-> path, priority |-> priority])
               /\ raised' = "none"
          ELSE /\ raised' = r.error
               /\ UNCHANGED <<routes, registered>>
    /\ query' = None
    /\ found' = None
    /\ UNCHANGED <<middlewares, app, appVars, reqVars, lifespanVars, httpVars, includeVars>>

\* route i is tried before route j: higher priority first, registration order
\* among equal priorities
tried_before(rs, i, j) ==
    \/ rs[i].priority > rs[j].priority
    \/ (rs[i].priority = rs[j].priority /\ i < j)

\* the positions of the routes in the order the lookup tries them
matching_order(rs) ==
    [k \in 1..Len(rs) |->
        CHOOSE i \in 1..Len(rs) :
            Cardinality({j \in 1..Len(rs) : tried_before(rs, j, i)}) = k - 1]

\* find_route(path, method): the first route in matching order that matches,
\* with the parameters it extracted, or None
find_route(rs, path, method) ==
    LET order == matching_order(rs)
        hits == {k \in 1..Len(rs) : matches(rs[order[k]], path, method).ok}
    IN IF hits = {} THEN None
       ELSE LET k == CHOOSE k \in hits : \A l \in hits : k <= l
            IN [tag |-> "found", route |-> order[k],
                params |-> matches(rs[order[k]], path, method).params]

\* a lookup on the router
FindRoute(path, method) ==
    /\ query' = [path |-> path, method |-> method]
    /\ found' = find_route(routes, path, method)
    /\ UNCHANGED <<routes, registered, chainVars, appVars, reqVars, lifespanVars, httpVars, includeVars>>

(***************************************************************************)
(* One route under test on a router, with or without a catch-all behind it *)
(***************************************************************************)
RouteChars == {"/", "1", "a"}

\* request paths with a remainder of several segments
LongPaths ==
    { <<"/", "1", "/", "a", "/", "1">>, <<"/", "1", "/", "a", "/">>,
      <<"/", "a", "/", "/", "1">>, <<"/", "1", "/", "1", "/", "a">>,
      <<"/", "a", "/", "1", "1">> }

\* request paths outside RouteChars: an Arabic-Indic digit and a fullwidth
\* digit, a dollar sign, a backslash, and a first segment int() reads that is
\* not made of digits alone
EscapePaths ==
    { <<"/", "U+0663">>, <<"/", "U+FF13">>, <<"/", "a", "$">>, <<"/", "\\", "d">>,
      <<"/", "-", "1", "/", "1">> }

\* request paths: every text over RouteChars of at most MaxPathLen characters
\* that starts with a slash, the long paths and the paths outside RouteChars
RoutePaths ==
    {s \in UNION {[1..n -> RouteChars] : n \in 1..MaxPathLen} : s[1] = "/"}
        \cup LongPaths \cup EscapePaths

\* the route registered behind the route under test: "/{x}"  handler(x)
CatchAll ==
    [path |-> <<"/", "{", "x", "}">>,
     handler |-> <<Param(<<"x">>, "empty")>>, methods |-> {}]

\* the registrations under test: template, handler signature, methods
TemplateDefs ==
    {
      \* /{n:int}  handler(n: int)
      [path |-> <<"/", "{", "n", ":", "i", "n", "t", "}">>,
       handler |-> <<Param(<<"n">>, "int")>>, methods |-> {}],
      \* /{n:int}  handler(n)
      [path |-> <<"/", "{", "n", ":", "i", "n", "t", "}">>,
       handler |-> <<Param(<<"n">>, "empty")>>, methods |-> {}],
      \* /1/{p:path}  handler(p: str)
      [path |-> <<"/", "1", "/", "{", "p", ":", "p", "a", "t", "h", "}">>,
       handler |-> <<Param(<<"p">>, "str")>>, methods |-> {}],
      \* /{p:path}  handler(p)
      [path |-> <<"/", "{", "p", ":", "p", "a", "t", "h", "}">>,
       handler |-> <<Param(<<"p">>, "empty")>>, methods |-> {}],
      \* /{p:path}/1  handler(p)
      [path |-> <<"/", "{", "p", ":", "p", "a", "t", "h", "}", "/", "1">>,
       handler |-> <<Param(<<"p">>, "empty")>>, methods |-> {}],
      \* /{x}/{x}  handler(x)
      [path |-> <<"/", "{", "x", "}", "/", "{", "x", "}">>,
       handler |-> <<Param(<<"x">>, "empty")>>, methods |-> {}],
      \* /{x}/{x:int}  handler(x)
      [path |-> <<"/", "{", "x", "}", "/", "{", "x", ":", "i", "n", "t", "}">>,
       handler |-> <<Param(<<"x">>, "empty")>>, methods |-> {}],
      \* /a//1  handler()
      [path |-> <<"/", "a", "/", "/", "1">>,
       handler |-> <<>>, methods |-> {}],
      \* /{x}  handler(x: str)
      [path |-> <<"/", "{", "x", "}">>,
       handler |-> <<Param(<<"x">>, "str")>>, methods |-> {}],
      \* /{x}  handler(x: NoneType)
      [path |-> <<"/", "{", "x", "}">>,
       handler |-> <<Param(<<"x">>, "NoneType")>>, methods |-> {}],
      \* /{f:float}  handler(f: float)
      [path |-> <<"/", "{", "f", ":", "f", "l", "o", "a", "t", "}">>,
       handler |-> <<Param(<<"f">>, "float")>>, methods |-> {}],
      \* /{u:uuid}  handler(u: UUID)
      [path |-> <<"/", "{", "u", ":", "u", "u", "i", "d", "}">>,
       handler |-> <<Param(<<"u">>, "UUID")>>, methods |-> {}],
      \* /  handler()  methods GET
      [path |-> <<"/">>,
       handler |-> <<>>, methods |-> {GET}],
      \* /a/  handler(request)  methods GET,POST
      [path |-> <<"/", "a", "/">>,
       handler |-> <<Param(REQUEST, "empty")>>, methods |-> {GET, POST}],
      \* /1/{p:multipath}  handler(p: str)
      [path |-> <<"/", "1", "/", "{", "p", ":", "m", "u", "l", "t", "i", "p", "a", "t", "h", "}">>,
       handler |-> <<Param(<<"p">>, "str")>>, methods |-> {}],
      \* /{x:a}  handler(x)
      [path |-> <<"/", "{", "x", ":", "a", "}">>,
       handler |-> <<Param(<<"x">>, "empty")>>, methods |-> {}],
      \* /a/*  handler()
      [path |-> <<"/", "a", "/", "*">>,
       handler |-> <<>>, methods |-> {}],
      \* /**  handler()
      [path |-> <<"/", "*", "*">>,
       handler |-> <<>>, methods |-> {}],
      \* /{x  handler(x)
      [path |-> <<"/", "{", "x">>,
       handler |-> <<Param(<<"x">>, "empty")>>, methods |-> {}],
      \* /a  handler()  methods GET,TRACE
      [path |-> <<"/", "a">>,
       handler |-> <<>>, methods |-> {GET, <<"T", "R", "A", "C", "E">>}],
      \* /{x}  handler()
      [path |-> <<"/", "{", "x", "}">>,
       handler |-> <<>>, methods |-> {}],
      \* /a  handler(x)
      [path |-> <<"/", "a">>,
       handler |-> <<Param(<<"x">>, "empty")>>, methods |-> {}],
      \* /{n:int}  handler(n: str)
      [path |-> <<"/", "{", "n", ":", "i", "n", "t", "}">>,
       handler |-> <<Param(<<"n">>, "str")>>, methods |-> {}],
      \* /{x}  handler(x: int)
      [path |-> <<"/", "{", "x", "}">>,
       handler |-> <<Param(<<"x">>, "int")>>, methods |-> {}],
      \* /{f:float}  handler(f: int)
      [path |-> <<"/", "{", "f", ":", "f", "l", "o", "a", "t", "}">>,
       handler |-> <<Param(<<"f">>, "int")>>, methods |-> {}],
      \* /{u:uuid}  handler(u: str)
      [path |-> <<"/", "{", "u", ":", "u", "u", "i", "d", "}">>,
       handler |-> <<Param(<<"u">>, "str")>>, methods |-> {}],
      \* /{p:path}  handler(p: int)
      [path |-> <<"/", "{", "p", ":", "p", "a", "t", "h", "}">>,
       handler |-> <<Param(<<"p">>, "int")>>, methods |-> {}],
      \* /\d  handler()
      [path |-> <<"/", "\\", "d">>,
       handler |-> <<>>, methods |-> {}],
      \* /a\  handler()
      [path |-> <<"/", "a", "\\">>,
       handler |-> <<>>, methods |-> {}],
      \* /{x}\1  handler(x)
      [path |-> <<"/", "{", "x", "}", "\\", "1">>,
       handler |-> <<Param(<<"x">>, "empty")>>, methods |-> {}],
      \* /\{x}  handler(x)
      [path |-> <<"/", "\\", "{", "x", "}">>,
       handler |-> <<Param(<<"x">>, "empty")>>, methods |-> {}] }

\* the registrations with an int parameter
IntDefs ==
    {d \in TemplateDefs :
        d.path \in { <<"/", "{", "n", ":", "i", "n", "t", "}">>,
                     <<"/", "{", "x", "}", "/", "{", "x", ":", "i", "n", "t", "}">> }}

\* "/" and one digit more than int() converts
LongNumber == [i \in 1..(MaxStrDigits + 2) |-> IF i = 1 THEN "/" ELSE "1"]

\* request paths of the int routes: numbers in ASCII and other digits, with
\* and without a trailing slash, texts that are not numbers, two segments,
\* and the long number
IntPaths ==
    { <<"/", "1">>, <<"/", "1", "1">>, <<"/", "0", "1">>, <<"/", "1", "/">>,
      <<"/", "U+0663">>, <<"/", "U+FF13">>, <<"/", "a">>, <<"/", "1", "a">>,
      <<"/", "a", "/", "1", "1">>, <<"/", "-", "1", "/", "1">>, LongNumber }

\* the catch-all is registered first, with the default priority
AddCatchAll ==
    /\ routes = <<>>
    /\ add_route(CatchAll.path, CatchAll.handler, CatchAll.methods, 0)

\* the route under test is registered with priority 5, so that it is tried
\* before the catch-all
AddTemplate(d) ==
    /\ \A i \in 1..Len(registered) : registered[i].priority = 0
    /\ add_route(d.path, d.handler, d.methods, 5)

(***************************************************************************)
(* Inclusion of routers: APIRouter(prefix=...), its registrations, and     *)
(* include_router, as in TestRouterPrefix.                                 *)
(***************************************************************************)
\* the routers other than the application's: admin_router and users_router
SubRouters == {"admin", "users"}

\* APIRouter(prefix=...) of each of them: "/b" and "/c"
prefix_of == [s \in SubRouters |-> IF s = "admin" THEN <<"/", "b">> ELSE <<"/", "c">>]

\* what each of them registers: admin "/d" handler(), users "/{n:int}" handler(n: int)
OwnDefs ==
    [s \in SubRouters |->
        IF s = "admin"
        THEN {[path |-> <<"/", "d">>, handler |-> <<>>, methods |-> {}]}
        ELSE {[path |-> <<"/", "{", "n", ":", "i", "n", "t", "}">>,
               handler |-> <<Param(<<"n">>, "int")>>, methods |-> {}]}]

\* prefix=... of app.include_router: none, or "/a"
IncludePrefixes == {<<>>, <<"/", "a">>}

\* the request paths of the lookups on the application's router
IncludePaths ==
    { <<"/", "a", "/", "b", "/", "c", "/", "1", "1">>,
      <<"/", "b", "/", "c", "/", "1", "1">>,
      <<"/", "a", "/", "b", "/", "c", "/", "x">>,
      <<"/", "a", "/", "b", "/", "d">>,
      <<"/", "b", "/", "d">>,
      <<"/", "b", "/", "b", "/", "c", "/", "1">>,
      <<"/", "c", "/", "1", "1">>,
      <<"/", "1", "1">>,
      <<"/", "a", "/", "b", "/", "c", "/", "1", "/">> }

\* a prefix put before a path that starts with a slash
join_prefix(prefix, path) == rstrip(prefix, "/") \o path

\* an entry of a router's collection: the Route, and as history the template
\* it was first registered with and the prefixes put before it, outermost first
Entry(route, template, prefixes) ==
    [route |-> route, template |-> template, prefixes |-> prefixes]

\* the copy of an entry that an inclusion with this prefix makes: a new Route
\* for prefix + path, with the handler, methods and priority of the original
copy_entry(e, prefix) ==
    Entry(Route(join_prefix(prefix, e.route.path), e.route.handler,
                e.route.methods, e.route.priority).route,
          e.template,
          IF prefix = <<>> THEN e.prefixes ELSE <<prefix>> \o e.prefixes)

\* s.include_router(t, ...) was called
included(s, t) == \E e \in includes : e[1] = s /\ e[2] = t

\* the copies of all the entries a router holds now
copies(entries, prefix) == [k \in 1..Len(entries) |-> copy_entry(entries[k], prefix)]

\* the route is also appended to the application's router
register_shared(s, d) ==
    /\ Len(subrouters[s]) < MaxRoutes
    /\ Len(routes) < MaxRoutes
    /\ LET r == Route(join_prefix(prefix_of[s], d.path), d.handler, d.methods, 0)
       IN /\ subrouters' = [subrouters EXCEPT ![s] =
                              Append(@, Entry(r.route, d.path, <<prefix_of[s]>>))]
          /\ routes' = Append(routes, r.route)
          /\ registered' = Append(registered,
                                  [path |-> r.route.path, priority |-> 0,
                                   template |-> d.path,
                                   prefixes |-> <<prefix_of[s]>>, via |-> s])
    /\ raised' = "none"
    /\ UNCHANGED <<middlewares, app, appVars, reqVars, lifespanVars, httpVars, query, found, includes>>

\* a registration on a router with a prefix: the Route is constructed for
\* prefix + template and appended to the router's collection
register(s, d) ==
    /\ Len(subrouters[s]) < MaxRoutes
    /\ LET r == Route(join_prefix(prefix_of[s], d.path), d.handler, d.methods, 0)
       IN IF r.ok
          THEN /\ subrouters' = [subrouters EXCEPT ![s] =
                                   Append(@, Entry(r.route, d.path, <<prefix_of[s]>>))]
               /\ raised' = "none"
          ELSE /\ raised' = r.error
               /\ UNCHANGED subrouters
    /\ UNCHANGED <<middlewares, app, appVars, reqVars, lifespanVars, httpVars, routerVars, includes>>

\* s.include_router(t): the routes t holds now are copied into s, under the
\* prefix of s
sub_include_router(s, t) ==
    /\ s # t
    /\ ~included(s, t)
    /\ Len(subrouters[s]) + Len(subrouters[t]) <= MaxRoutes
    /\ subrouters' = [subrouters EXCEPT ![s] = @ \o copies(subrouters[t], prefix_of[s])]
    /\ includes' = includes \cup {<<s, t, <<>>>>}
    /\ raised' = "none"
    /\ UNCHANGED <<middlewares, app, appVars, reqVars, lifespanVars, httpVars, routerVars>>

\* APIRouter.include_router of the application's router: the routes the
\* included router holds now are copied under the prefix; each copy is
\* recorded with the router it came from and its history in that router
router_include_router(t, prefix) ==
    /\ ~included("app", t)
    /\ Len(routes) + Len(subrouters[t]) <= MaxRoutes
    /\ LET new == copies(subrouters[t], prefix)
       IN /\ routes' = routes \o [k \in 1..Len(new) |-> new[k].route]
          /\ registered' = registered \o
                [k \in 1..Len(new) |->
                    [path |-> new[k].route.path, priority |-> new[k].route.priority,
                     template |-> new[k].template,
                     prefixes |-> subrouters[t][k].prefixes, via |-> t]]
    /\ raised' = "none"
    /\ query' = None
    /\ found' = None
    /\ UNCHANGED <<middlewares, app, appVars, reqVars, lifespanVars, httpVars, subrouters>>

\* the prefix is dropped
include_router_without_prefix(router, prefix) ==
    /\ router_include_router(router, <<>>)
    /\ includes' = includes \cup {<<"app", router, prefix>>}

\* FastASGI.include_router(router, prefix): self.router.include_router(router,
\* prefix); the call is recorded with the prefix it was given
include_router(router, prefix) ==
    /\ router_include_router(router, prefix)
    /\ includes' = includes \cup {<<"app", router, prefix>>}

(***************************************************************************)
(* Lifespan: event handlers and _handle_lifespan, one handler at a time    *)
(***************************************************************************)
\* the event types the registrations are called with
EventTypes == {"startup", "shutdown", "invalid"}

\* user handlers: one that returns and one that raises
\* RuntimeError("Startup failed")
HandlerFuncs == {"ok", "raise"}

\* str(e) of the error the raising handler raises
ErrorText == "Startup failed"

\* what the server delivers on the receive channel of one lifespan invocation
LifespanScripts ==
    { <<"lifespan.startup">>, <<"lifespan.shutdown">>,
      <<"lifespan.startup", "lifespan.shutdown">> }

\* a registration that files every event type other than "shutdown" under startup
_register_event_handler_no_check(event_type, func) ==
    /\ IF event_type = "shutdown"
       THEN /\ Len(shutdown_handlers) < MaxHandlers
            /\ shutdown_handlers' = Append(shutdown_handlers, func)
            /\ UNCHANGED startup_handlers
       ELSE /\ Len(startup_handlers) < MaxHandlers
            /\ startup_handlers' = Append(startup_handlers, func)
            /\ UNCHANGED shutdown_handlers
    /\ raised' = "none"

\* FastASGI._register_event_handler(event_type, func)
_register_event_handler(event_type, func) ==
    IF event_type = "startup"
    THEN /\ Len(startup_handlers) < MaxHandlers
         /\ startup_handlers' = Append(startup_handlers, func)
         /\ raised' = "none"
         /\ UNCHANGED shutdown_handlers
    ELSE IF event_type = "shutdown"
    THEN /\ Len(shutdown_handlers) < MaxHandlers
         /\ shutdown_handlers' = Append(shutdown_handlers, func)
         /\ raised' = "none"
         /\ UNCHANGED startup_handlers
    ELSE /\ raised' = "ValueError"
         /\ UNCHANGED <<startup_handlers, shutdown_handlers>>

\* what a registration leaves alone; a registration can come at any time,
\* also while a handler of a running event is suspended
RegistrationFrame ==
    /\ UNCHANGED <<middlewares, app, app_with_middleware, middleware_built,
                   lifespan_sent, assignments, chain_at_build, build_skipped,
                   lifespan_pc, handler_log, inbox, delivered>>
    /\ UNCHANGED <<reqVars, routerVars, includeVars, httpVars>>

\* @app.on_event(event_type) applied to func
on_event(event_type, func) ==
    /\ _register_event_handler(event_type, func)
    /\ RegistrationFrame

\* app.add_event_handler(event_type, func)
add_event_handler(event_type, func) ==
    /\ _register_event_handler(event_type, func)
    /\ RegistrationFrame

\* app(scope, receive, send) with scope type lifespan, up to the return of
\* `message = await receive()`
_handle_lifespan(script) ==
    /\ lifespan_pc \in {"idle", "returned"}
    /\ delivered' = script
    /\ inbox' = Tail(script)
    /\ lifespan_pc' = Head(script)
    /\ handler_log' = <<>>
    /\ lifespan_sent' = <<>>
    /\ raised' = "none"
    /\ UNCHANGED <<middlewares, app, app_with_middleware, middleware_built,
                   startup_handlers, shutdown_handlers, assignments,
                   chain_at_build, build_skipped>>
    /\ UNCHANGED <<reqVars, routerVars, includeVars, httpVars>>

\* the loop of a run completes after the first handler
exhausted_after_first(handlers, i) == i > Len(handlers) \/ i > 1

\* `for handler in handlers` has no handler left
exhausted(handlers, i) == i > Len(handlers)

\* the handlers of the event being handled
handlers_of(event) ==
    IF event = "lifespan.startup" THEN startup_handlers ELSE shutdown_handlers

\* the run goes on after a handler has raised
handler_raises_ignored(h) == FALSE

\* `await handler()` raises
handler_raises(h) == h = "raise"

\* one `await handler()` of _run_startup_handlers or _run_shutdown_handlers;
\* a handler that raises takes the except branch of _handle_lifespan, which
\* sends the failed message with str(e) and returns
RunHandler(event) ==
    LET handlers == handlers_of(event)
        i == Len(handler_log) + 1
    IN /\ lifespan_pc = event
       /\ ~exhausted(handlers, i)
       /\ handler_log' = Append(handler_log, i)
       /\ IF handlers[i] = "build"
          THEN BuildEffect
          ELSE UNCHANGED <<app_with_middleware, middleware_built, assignments,
                           chain_at_build, build_skipped>>
       /\ IF handler_raises(handlers[i])
          THEN /\ lifespan_sent' = Append(lifespan_sent,
                                          [type |-> event \o ".failed",
                                           message |-> ErrorText])
               /\ lifespan_pc' = "returned"
          ELSE UNCHANGED <<lifespan_sent, lifespan_pc>>
       /\ UNCHANGED <<chainVars, startup_handlers, shutdown_handlers, inbox, delivered>>
       /\ UNCHANGED <<reqVars, routerVars, includeVars, httpVars>>

\* FastASGI._run_startup_handlers, one handler
_run_startup_handlers == RunHandler("lifespan.startup")

\* FastASGI._run_shutdown_handlers, one handler
_run_shutdown_handlers == RunHandler("lifespan.shutdown")

\* the run of the handlers has returned: the complete message is sent and
\* _handle_lifespan returns
LifespanComplete ==
    /\ lifespan_pc \in {"lifespan.startup", "lifespan.shutdown"}
    /\ exhausted(handlers_of(lifespan_pc), Len(handler_log) + 1)
    /\ lifespan_sent' = Append(lifespan_sent, [type |-> lifespan_pc \o ".complete"])
    /\ lifespan_pc' = "returned"
    /\ UNCHANGED <<chainVars, app_with_middleware, middleware_built, startup_handlers,
                   shutdown_handlers, assignments, chain_at_build, build_skipped,
                   handler_log, inbox, delivered>>
    /\ UNCHANGED <<reqVars, routerVars, includeVars, httpVars>>

(***************************************************************************)
(* One HTTP invocation, message by message: the body is received, the      *)
(* pipeline is awaited, the response is sent                               *)
(***************************************************************************)
\* an ASGI message of the receive channel; has_body and has_more say whether
\* the "body" and "more_body" keys are present
Message(type, has_body, body, has_more, more) ==
    [type |-> type, has_body |-> has_body, body |-> body,
     has_more |-> has_more, more_body |-> more]

\* the messages a server delivers for a request
HttpMessages ==
    { Message("http.request", TRUE, <<"x">>, TRUE, TRUE),
      Message("http.request", TRUE, <<"y", "z">>, TRUE, FALSE),
      Message("http.request", TRUE, <<>>, TRUE, TRUE),
      Message("http.request", FALSE, <<>>, FALSE, FALSE),
      Message("http.disconnect", FALSE, <<>>, FALSE, FALSE) }

\* what the server delivers on the receive channel of one request
BodyScripts == UNION {[1..n -> HttpMessages] : n \in 1..MaxChunks}

\* the receive function of the tests: one message, body b"", more_body False
SingleMessage == <<Message("http.request", TRUE, <<>>, TRUE, FALSE)>>

\* a body delivered in two messages, the first announcing more
ChunkedBody ==
    <<Message("http.request", TRUE, <<"x">>, TRUE, TRUE),
      Message("http.request", TRUE, <<"y", "z">>, TRUE, FALSE)>>

\* message.get("body", b"")
get_body(message) == IF message.has_body THEN message.body ELSE <<>>

\* a message without the key counts as one with more to come
get_more_body_default_true(message) ==
    IF message.has_more THEN message.more_body ELSE TRUE

\* message.get("more_body", False)
get_more_body(message) == IF message.has_more THEN message.more_body ELSE FALSE

RECURSIVE join(_)
\* b"".join(body_parts)
join(parts) == IF parts = <<>> THEN <<>> ELSE Head(parts) \o join(Tail(parts))

\* app(scope, receive, send) with scope type http: _handle_http is entered
\* and _receive_complete_message starts with no parts
_handle_http(script) ==
    /\ phase = "idle"
    /\ pc[Caller] = "idle"
    /\ phase' = "receive"
    /\ channel' = script
    /\ body_parts' = <<>>
    /\ receive_calls' = <<>>
    /\ UNCHANGED <<chainVars, appVars, reqVars, routerVars, includeVars, lifespanVars>>

\* one round of the loop of _receive_complete_message: a message is received;
\* the loop is left at the last part of the request and at a disconnect
_receive_complete_message ==
    /\ phase = "receive"
    /\ channel # <<>>
    /\ LET message == Head(channel)
       IN /\ channel' = Tail(channel)
          /\ receive_calls' = Append(receive_calls, message)
          /\ IF message.type = "http.request"
             THEN /\ body_parts' = IF get_body(message) # <<>>
                                   THEN Append(body_parts, get_body(message))
                                   ELSE body_parts
                  /\ phase' = IF ~get_more_body(message) THEN "pipeline" ELSE "receive"
             ELSE /\ UNCHANGED body_parts
                  /\ phase' = IF message.type = "http.disconnect"
                              THEN "pipeline" ELSE "receive"
    /\ UNCHANGED <<chainVars, appVars, reqVars, routerVars, includeVars, lifespanVars>>

\* request = Request(scope, body), once the body is complete
HttpConstructRequest ==
    /\ phase = "pipeline"
    /\ RequestFails(Caller)

(***************************************************************************)
(* Specifications                                                          *)
(***************************************************************************)
Init ==
    /\ middlewares = <<>>
    /\ app = None
    /\ raised = "none"
    /\ app_with_middleware = None
    /\ middleware_built = FALSE
    /\ startup_handlers = <<"build">>
    /\ lifespan_sent = <<>>
    /\ assignments = 0
    /\ chain_at_build = <<>>
    /\ build_skipped = FALSE
    /\ pc = [r \in Requests |-> "idle"]
    /\ callee = [r \in Requests |-> None]
    /\ stack = [r \in Requests |-> <<>>]
    /\ ret = [r \in Requests |-> NoResult]
    /\ trace = [r \in Requests |-> <<>>]
    /\ using = [r \in Requests |-> None]
    /\ sent = [r \in Requests |-> <<>>]
    /\ routes = <<>>
    /\ registered = <<>>
    /\ query = None
    /\ found = None
    /\ subrouters = [s \in SubRouters |-> <<>>]
    /\ includes = {}
    /\ shutdown_handlers = <<>>
    /\ lifespan_pc = "idle"
    /\ handler_log = <<>>
    /\ inbox = <<>>
    /\ delivered = <<>>
    /\ channel = <<>>
    /\ body_parts = <<>>
    /\ receive_calls = <<>>
    /\ phase = "idle"

\* a MiddlewareChain used on its own, as in TestMiddlewareChain
NextChain ==
    \/ \E m \in MiddlewareFuncs : ChainAdd(m)
    \/ ChainClear
    \/ ChainBuild
    \/ Invoke
    \/ StepCall(Caller)
    \/ StepReturn(Caller)
    \/ Finish(Caller)
    \/ ChainNext

SpecChain == Init /\ [][NextChain]_vars

\* one FastASGI application: its configuration, the server's startup
\* events and the HTTP requests in flight
Next ==
    \/ \E m \in MiddlewareFuncs : add_middleware(m)
    \/ \E m \in MiddlewareFuncs : AppChainAdd(m)
    \/ _build_middleware_chain
    \/ _handle_lifespan(<<"lifespan.startup">>)
    \/ _run_startup_handlers
    \/ LifespanComplete
    \/ \E r \in Requests : HttpRequest(r)
    \/ \E r \in Requests : SendStart(r)
    \/ \E r \in Requests : SendBody(r)

Spec == Init /\ [][Next]_vars

\* the handler of an application configured and then built, awaited by
\* several tasks at once
NextPipeline ==
    \/ ~middleware_built /\ \E m \in MiddlewareFuncs : add_middleware(m)
    \/ _build_middleware_chain
    \/ \E r \in Requests : call_app_with_middleware(r)
    \/ \E r \in Requests : StepCall(r)
    \/ \E r \in Requests : StepReturn(r)
    \/ \E r \in Requests : Finish(r)

SpecPipeline == Init /\ [][NextPipeline]_vars

\* a router on its own: registrations and lookups, as in test_advanced_routing
NextRouter ==
    \/ \E d \in RouteDefs, priority \in Priorities :
           add_route(d.path, d.handler, d.methods, priority)
    \/ \E path \in RequestPaths, method \in RequestMethods : FindRoute(path, method)

SpecRouter == Init /\ [][NextRouter]_vars

\* one route under test: its construction, and lookups on the router
NextRoute ==
    \/ AddCatchAll
    \/ \E d \in TemplateDefs : AddTemplate(d)
    \/ \E path \in RoutePaths, method \in RequestMethods : FindRoute(path, method)

SpecRoute == Init /\ [][NextRoute]_vars

\* a router with plain, trailing-slash, parameter and path-parameter routes
\* of either priority, and lookups of every request path
NextSlash ==
    \/ \E d \in SlashDefs, priority \in Priorities :
           add_route(d.path, d.handler, d.methods, priority)
    \/ \E path \in RequestPaths, method \in RequestMethods : FindRoute(path, method)

SpecSlash == Init /\ [][NextSlash]_vars

\* a route with an int parameter under test: lookups of numbers, of texts
\* that are not numbers and of a number of more digits than int() converts
NextInt ==
    \/ AddCatchAll
    \/ \E d \in IntDefs : AddTemplate(d)
    \/ \E path \in IntPaths, method \in RequestMethods : FindRoute(path, method)

SpecInt == Init /\ [][NextInt]_vars

\* routers with prefixes included into one another and into the application
NextInclude ==
    \/ \E s \in SubRouters : \E d \in OwnDefs[s] : register(s, d)
    \/ \E s \in SubRouters, t \in SubRouters : sub_include_router(s, t)
    \/ \E t \in SubRouters, prefix \in IncludePrefixes : include_router(t, prefix)
    \/ \E path \in IncludePaths : FindRoute(path, GET)

SpecInclude == Init /\ [][NextInclude]_vars

\* the event handlers of one application and the server's lifespan invocations
NextLifespan ==
    \/ \E t \in EventTypes, f \in HandlerFuncs : on_event(t, f)
    \/ \E t \in EventTypes, f \in HandlerFuncs : add_event_handler(t, f)
    \/ \E script \in LifespanScripts : _handle_lifespan(script)
    \/ _run_startup_handlers
    \/ _run_shutdown_handlers
    \/ LifespanComplete

SpecLifespan == Init /\ [][NextLifespan]_vars

\* the reassembly of a request body from the messages of the receive channel
NextBody ==
    \/ \E script \in BodyScripts : _handle_http(script)
    \/ _receive_complete_message

SpecBody == Init /\ [][NextBody]_vars

\* receive returns whenever the channel holds a message
SpecBodyLive == SpecBody /\ WF_vars(_receive_complete_message)

\* one HTTP request on an application, from the call to the last message sent
NextHttp ==
    \/ \E m \in MiddlewareFuncs : add_middleware(m)
    \/ _build_middleware_chain
    \/ \E script \in {SingleMessage, ChunkedBody} : _handle_http(script)
    \/ _receive_complete_message
    \/ HttpConstructRequest
    \/ SendStart(Caller)
    \/ SendBody(Caller)

SpecHttp == Init /\ [][NextHttp]_vars

(***************************************************************************)
(* Properties of the middleware chain                                      *)
(***************************************************************************)
IsPrefix(s, t) == Len(s) <= Len(t) /\ s = SubSeq(t, 1, Len(s))

\* the middleware calls its continuation exactly once for this request
CallsOnce(m, q) == behaviour(m, q) \in {"pass", "finally"}

\* enter events of the first k registered middlewares, in registration order
Enters(ms, k, q) == [i \in 1..k |-> Enter(ms[i], i, q)]

\* exit events of the first k registered middlewares, last registered first
ExitsDown(ms, k, q, res) == [i \in 1..k |-> Exit(ms[k + 1 - i], k + 1 - i, q, res)]

IsExit(e) == e.ev = "exit"
IsFinallyExit(e) == Kind(e.mw) = "finally"

\* the position of the first middleware that does not call its continuation
\* for the request q, one past the end if every middleware calls it
FirstStop(ms, q) ==
    IF \E i \in 1..Len(ms) : ~CallsOnce(ms[i], q)
    THEN CHOOSE i \in 1..Len(ms) :
            ~CallsOnce(ms[i], q) /\ \A j \in 1..(i - 1) : CallsOnce(ms[j], q)
    ELSE Len(ms) + 1

\* C1: with middlewares M1..Mn that each call their continuation once and a
\* terminal that returns a response, a finished invocation of the composed
\* handler logged exactly M1-enter .. Mn-enter, T, Mn-exit .. M1-exit.
C1_OnionOrder ==
    \A r \in Requests :
        (/\ pc[r] = "done"
         /\ using[r] # None
         /\ \A i \in 1..Len(using[r].from) :
                CallsOnce(using[r].from[i], using[r].request)
         /\ ret[r].tag = "response")
        => LET ms == using[r].from
               n == Len(ms)
               q == using[r].request
               resp == [tag |-> "response", by |-> "T", level |-> n + 1,
                        req |-> q, status |-> ret[r].status]
           IN /\ ret[r].status = EndpointStatus
              /\ trace[r] = Enters(ms, n, q) \o <<Terminal(n + 1, q)>>
                               \o ExitsDown(ms, n, q, resp)

C1_Witness ==
    \E r \in Requests :
        /\ pc[r] = "done"
        /\ using[r] # None
        /\ Len(using[r].from) >= 3
        /\ using[r].from[1] # using[r].from[2]
        /\ \A i \in 1..Len(using[r].from) :
               CallsOnce(using[r].from[i], using[r].request)
        /\ ret[r].tag = "response"

\* C2: when the k-th registered middleware returns a response without calling
\* its continuation, the finished invocation logged the enters of M1..Mk and
\* nothing of Mk+1.. or of the terminal, then the exits of Mk-1..M1, each of
\* which received the response of Mk.
C2_ShortCircuit ==
    \A r \in Requests :
        (/\ pc[r] = "done"
         /\ using[r] # None
         /\ FirstStop(using[r].from, using[r].request) <= Len(using[r].from))
        => LET ms == using[r].from
               q == using[r].request
               k == FirstStop(ms, q)
               resp == [tag |-> "response", by |-> ms[k], level |-> k,
                        req |-> q, status |-> Unauthorized]
           IN /\ trace[r] = Enters(ms, k, q) \o ExitsDown(ms, k - 1, q, resp)
              /\ ret[r] = resp

C2_Witness ==
    \E r \in Requests :
        /\ pc[r] = "done"
        /\ using[r] # None
        /\ FirstStop(using[r].from, using[r].request) >= 2
        /\ FirstStop(using[r].from, using[r].request) < Len(using[r].from)
        /\ ret[r].tag = "response"

\* C3: when an invocation ends with an error, the exits logged before the
\* error left the composed handler are those of every entered try/finally
\* middleware, last registered first.
C3_ExitOnError ==
    \A r \in Requests :
        (/\ pc[r] = "done"
         /\ using[r] # None
         /\ ret[r].tag = "error")
        => SelectSeq(trace[r], IsExit)
             = SelectSeq(ExitsDown(using[r].from, ret[r].level - 1,
                                   using[r].request, ret[r]),
                         IsFinallyExit)

C3_Witness ==
    \E r \in Requests :
        /\ pc[r] = "done"
        /\ using[r] # None
        /\ ret[r].tag = "error"
        /\ ret[r].by = "T"
        /\ Len(SelectSeq(trace[r], IsExit)) >= 2
        /\ \E i \in 1..Len(using[r].from) : Kind(using[r].from[i]) = "pass"

\* C4: once the chain is built, a call of add_middleware raises and leaves
\* _app_with_middleware as it was; the handler the application holds for its
\* requests stays, from then on, the one built, with the layers it was built
\* with in their order.
C4_AddAfterBuildRefused ==
    /\ [][\A m \in MiddlewareFuncs :
            (middleware_built /\ add_middleware(m))
            => (raised' = "RuntimeError"
                /\ app_with_middleware' = app_with_middleware)]_vars
    /\ [][middleware_built => app_with_middleware' = app_with_middleware]_vars
    /\ [](middleware_built => Layers(app_with_middleware) = chain_at_build)

C4_Witness ==
    /\ middleware_built
    /\ raised = "RuntimeError"
    /\ Len(chain_at_build) >= 1
    /\ Len(middlewares) > Len(chain_at_build)
    /\ Layers(app_with_middleware) = chain_at_build
    /\ \E r \in Requests : pc[r] = "done"

\* C5: after build, add attempts leave the chain's list as it was at build,
\* so count() keeps its value.
C5_ChainFrozenByBuild ==
    middleware_built => (middlewares = chain_at_build /\ count = Len(chain_at_build))

\* C6: a second build on a chain is rejected or returns the handler of the
\* first build.
C6_SecondBuildSame ==
    [][(app # None /\ ChainBuild)
       => (raised' # "none" \/ app'.handler = app.handler)]_vars

\* C7: _app_with_middleware is assigned at most once, whatever startup events,
\* add_middleware calls and requests follow.
C7_BuiltOnce ==
    /\ assignments <= 1
    /\ middleware_built <=> assignments = 1
    /\ middleware_built <=> app_with_middleware # None

C7_Witness ==
    /\ assignments = 1
    /\ build_skipped
    /\ lifespan_pc = "returned"
    /\ lifespan_sent = <<[type |-> "lifespan.startup.complete"]>>
    /\ middlewares # chain_at_build
    /\ \E r \in Requests : pc[r] = "done" /\ Len(sent[r]) = 2

\* the results one invocation of a handler built from ms can have for request q
Results(ms, q) ==
    LET k == FirstStop(ms, q)
    IN IF k <= Len(ms)
       THEN {[tag |-> "response", by |-> ms[k], level |-> k, req |-> q,
              status |-> Unauthorized]}
       ELSE EndpointResults(Len(ms) + 1, q)

\* what one invocation logs in full, given the result of its innermost
\* reached step
ExpectedTrace(ms, q, res) ==
    LET n == Len(ms)
        k == FirstStop(ms, q)
        m == IF k <= n THEN k - 1 ELSE n
    IN Enters(ms, IF k <= n THEN k ELSE n, q)
         \o (IF k <= n THEN <<>> ELSE <<Terminal(n + 1, q)>>)
         \o (IF res.tag = "response" THEN ExitsDown(ms, m, q, res)
             ELSE SelectSeq(ExitsDown(ms, m, q, res), IsFinallyExit))

\* C8: with invocations interleaved in the same composed handler, each one's
\* log is its own onion sequence, built from the request it brought and the
\* result produced for it, and the handler stays the one that was built.
C8_ConcurrentRequests ==
    \A r \in Requests :
        using[r] # None =>
            /\ using[r].handler = app_with_middleware
            /\ Layers(app_with_middleware) = chain_at_build
            /\ middlewares = chain_at_build
            /\ using[r].request.id = r
            /\ \E res \in Results(using[r].from, using[r].request) :
                 IsPrefix(trace[r], ExpectedTrace(using[r].from, using[r].request, res))
            /\ pc[r] = "done" =>
                 /\ ret[r] \in Results(using[r].from, using[r].request)
                 /\ trace[r] = ExpectedTrace(using[r].from, using[r].request, ret[r])

C8_Witness ==
    \E r, q \in Requests :
        /\ r # q
        /\ pc[r] = "call" /\ Len(stack[r]) >= 1
        /\ pc[q] = "return" /\ Len(stack[q]) >= 1
        /\ Len(trace[q]) > Len(trace[r])
        /\ Len(chain_at_build) >= 2
        /\ using[r].request.path # using[q].request.path

(***************************************************************************)
(* Router claims                                                           *)
(***************************************************************************)
\* the registered routes that match the last lookup
Matching ==
    {i \in 1..Len(routes) : matches(routes[i], query.path, query.method).ok}

\* C9: find_route(path, method) returns the matching route that comes first in
\* priority-descending order, equal priorities in registration order: the
\* route returned matches, no matching route was registered with a strictly
\* higher priority, no matching route of the same priority was registered
\* earlier, and the lookup returns None only when no route matches.
C9_PriorityThenRegistrationOrder ==
    query # None =>
        IF Matching = {}
        THEN found = None
        ELSE /\ found # None
             /\ found.route \in Matching
             /\ found.params =
                    matches(routes[found.route], query.path, query.method).params
             /\ \A j \in Matching :
                    /\ registered[j].priority <= registered[found.route].priority
                    /\ registered[j].priority = registered[found.route].priority
                           => found.route <= j

\* a lookup that two routes match returned the one registered later, with the
\* higher priority
C9_Witness ==
    /\ query # None
    /\ found # None
    /\ \E j \in Matching :
          /\ j < found.route
          /\ registered[j].priority < registered[found.route].priority

\* the request path of the last lookup with one more trailing slash
WithSlash(path) == Append(path, "/")

\* normalizing twice is normalizing once, on the registered templates, on the
\* request path and on the request path with one or two more slashes, and the
\* root path is left unchanged
NormalizeIdempotent ==
    /\ normalize(<<"/">>) = <<"/">>
    /\ \A i \in 1..Len(routes) :
          /\ routes[i].path = normalize(registered[i].path)
          /\ normalize(routes[i].path) = routes[i].path
    /\ query # None =>
          \A p \in {query.path, WithSlash(query.path),
                    WithSlash(WithSlash(query.path))} :
              /\ normalize(normalize(p)) = normalize(p)
              /\ normalize(WithSlash(p)) = normalize(p)

Answer(i) == matches(routes[i], query.path, query.method)

\* the text after the leading slash of the normalized request path
OnlySegment(path) == SubSeq(normalize(path), 2, Len(normalize(path)))

IntTemplate == <<"/", "{", "n", ":", "i", "n", "t", "}">>

\* the text is one or more decimal digits
only_digits(text) == text # <<>> /\ \A i \in 1..Len(text) : text[i] \in Digits

\* C11 as stated: a route with an int parameter matches a segment of digits
\* and yields its value as an integer; every route that does not match, a
\* failed conversion included, answers (False, empty map) and nothing else, so
\* the lookup raises nothing: it returns the first route in matching order
\* that matches, going past the routes that did not, or None when none matches.
C11_IntConversionNoRaise ==
    query # None =>
        /\ \A i \in 1..Len(routes) :
              /\ Answer(i).ok =>
                    \A k \in 1..Len(routes[i].param_types) :
                        routes[i].param_types[k].type = "int"
                            => Answer(i).params[k].value.t = "int"
              /\ ~Answer(i).ok => Answer(i) = NoParams
              /\ (routes[i].path = IntTemplate /\ upper(query.method) = GET) =>
                    IF only_digits(OnlySegment(query.path))
                    THEN /\ Answer(i).ok
                         /\ Answer(i).params =
                               <<[name |-> <<"n">>,
                                  value |-> [t |-> "int",
                                             v |-> to_int(OnlySegment(query.path))]]>>
                    ELSE Answer(i) = NoParams
        /\ IF \E i \in 1..Len(routes) : Answer(i).ok
           THEN /\ found # None
                /\ Answer(found.route).ok
                /\ \A j \in 1..Len(routes) :
                      tried_before(routes, j, found.route) => ~Answer(j).ok
           ELSE found = None

\* C11, amended: a route with an int parameter matches a segment of at most
\* MaxStrDigits digits and yields its value as an integer; a segment of more
\* digits matches the pattern but is not convertible, and like every route
\* that does not match the route answers (False, empty map) and nothing else,
\* so the lookup raises nothing: it returns the first route in matching order
\* that matches, going past the routes that did not, or None when none
\* matches.
C11_IntConversionWithinDigitLimit ==
    query # None =>
        /\ \A i \in 1..Len(routes) :
              /\ Answer(i).ok =>
                    \A k \in 1..Len(routes[i].param_types) :
                        routes[i].param_types[k].type = "int"
                            => Answer(i).params[k].value.t = "int"
              /\ ~Answer(i).ok => Answer(i) = NoParams
              /\ (routes[i].path = IntTemplate /\ upper(query.method) = GET) =>
                    IF /\ only_digits(OnlySegment(query.path))
                       /\ Len(OnlySegment(query.path)) <= MaxStrDigits
                    THEN Answer(i) =
                           [ok |-> TRUE,
                            params |-> <<[name |-> <<"n">>,
                                          value |-> [t |-> "int",
                                                     v |-> to_int(OnlySegment(query.path))]]>>]
                    ELSE Answer(i) = NoParams
        /\ IF \E i \in 1..Len(routes) : Answer(i).ok
           THEN /\ found # None
                /\ Answer(found.route).ok
                /\ \A j \in 1..Len(routes) :
                      tried_before(routes, j, found.route) => ~Answer(j).ok
           ELSE found = None

\* the int route, tried first, did not match a segment of MaxStrDigits + 1
\* digits, and the lookup went on to the catch-all behind it
C11_Witness ==
    /\ query # None
    /\ found # None
    /\ query.path = LongNumber
    /\ routes[found.route].path = CatchAll.path
    /\ \E i \in 1..Len(routes) :
          /\ routes[i].path = IntTemplate
          /\ tried_before(routes, i, found.route)
          /\ upper(query.method) \in routes[i].methods
          /\ only_digits(OnlySegment(query.path))
          /\ Answer(i) = NoParams

MultipathTemplate ==
    <<"/", "1", "/", "{", "p", ":", "m", "u", "l", "t", "i", "p", "a", "t", "h", "}">>

\* the request path is under the literal prefix "/1/"
UnderPrefix(path) == Len(path) >= 3 /\ SubSeq(path, 1, 3) = <<"/", "1", "/">>

\* C12: a template with a parameter written {p:multipath} is accepted, and the
\* route made from "/1/{p:multipath}" matches every path under "/1/" with p
\* the whole remainder, slashes included, and the empty remainder for "/1/".
C12_MultipathAccepted ==
    /\ [][\A d \in TemplateDefs :
            (d.path = MultipathTemplate /\ AddTemplate(d))
                => (raised' = "none" /\ Len(routes') = Len(routes) + 1)]_vars
    /\ [](query # None =>
            \A i \in 1..Len(routes) :
                (registered[i].path = MultipathTemplate
                    /\ upper(query.method) \in routes[i].methods
                    /\ UnderPrefix(query.path))
                => Answer(i) =
                     [ok |-> TRUE,
                      params |-> <<[name |-> <<"p">>,
                                    value |-> [t |-> "str",
                                               v |-> SubSeq(query.path, 4,
                                                            Len(query.path))]]>>])

\* the texts between "{" and the next "}" of a template, in order
RECURSIVE Tokens(_, _)
Tokens(template, index) ==
    IF index > Len(template) THEN <<>>
    ELSE IF template[index] = "{"
    THEN LET end == str_find(template, "}", index)
         IN IF end = 0 THEN <<>>
            ELSE <<SubSeq(template, index + 1, end - 1)>> \o Tokens(template, end + 1)
    ELSE Tokens(template, index + 1)

\* the name of a parameter token: the text before its first colon
TokenName(token) ==
    IF contains(token, ":") THEN SubSeq(token, 1, str_find(token, ":", 1) - 1) ELSE token

\* the parameter names a template uses
TokenNames(template) ==
    {TokenName(Tokens(template, 1)[k]) : k \in 1..Len(Tokens(template, 1))}

\* the parameter names a handler declares, "request" left out
DeclaredNames(handler) == {handler[k].name : k \in 1..Len(handler)} \ {REQUEST}

\* the parameter names of a compiled template
CompiledNames(route) == {route.param_types[k].name : k \in 1..Len(route.param_types)}

ConsistencyErrors ==
    {"handler function does not have corresponding parameters",
     "Handler function expects path parameters"}

\* C13: in every constructed Route the names the handler declares, "request"
\* left out, are the names of the compiled template, which are the names the
\* template was written with; a registration whose template compiles and
\* whose names differ from the handler's, in either direction, raises the
\* configuration error of that direction and creates no Route; a lookup
\* raises nothing.
C13_HandlerNamesEqualTemplateNames ==
    /\ [](\A i \in 1..Len(routes) :
            /\ DeclaredNames(routes[i].handler) = CompiledNames(routes[i])
            /\ CompiledNames(routes[i]) = TokenNames(registered[i].path))
    /\ [][\A d \in TemplateDefs :
            (/\ AddTemplate(d)
             /\ _invalid_http_methods(d.methods) = {}
             /\ _compile_path_pattern(normalize(d.path)).ok)
            => /\ (TokenNames(d.path) \ DeclaredNames(d.handler) # {}
                     => /\ raised' = "handler function does not have corresponding parameters"
                        /\ routes' = routes)
               /\ ((/\ TokenNames(d.path) \ DeclaredNames(d.handler) = {}
                    /\ DeclaredNames(d.handler) \ TokenNames(d.path) # {})
                     => /\ raised' = "Handler function expects path parameters"
                        /\ routes' = routes)
               /\ (TokenNames(d.path) = DeclaredNames(d.handler)
                     => raised' \notin ConsistencyErrors)]_vars
    /\ [][\A path \in RoutePaths, method \in RequestMethods :
            FindRoute(path, method) => (raised' = raised /\ routes' = routes)]_vars

\* a route with a parameter stands constructed and a registration whose
\* handler declares a parameter the template does not define was refused
C13_Witness ==
    /\ raised = "Handler function expects path parameters"
    /\ \E i \in 1..Len(routes) : CompiledNames(routes[i]) # {}

\* the capture groups of a compiled pattern
Groups(route) == SelectSeq(route.path_regex, LAMBDA part : part.kind = "group")

\* C14: in every constructed Route the names of the parameter tokens of its
\* template are pairwise distinct, and the Route holds one parameter
\* specification per token, as many as its matcher has capture groups (a
\* template that repeats a name never becomes a Route).
C14_UniqueParameterNames ==
    \A i \in 1..Len(routes) :
        /\ Cardinality(TokenNames(registered[i].path))
              = Len(Tokens(registered[i].path, 1))
        /\ Len(routes[i].param_types) = Len(Tokens(registered[i].path, 1))
        /\ Len(routes[i].param_types) = Len(Groups(routes[i]))

\* a "{" of the template, met while scanning it, has no "}" after it
RECURSIVE HasUnclosed(_, _)
HasUnclosed(template, index) ==
    IF index > Len(template) THEN FALSE
    ELSE IF template[index] = "{"
    THEN LET end == str_find(template, "}", index)
         IN IF end = 0 THEN TRUE ELSE HasUnclosed(template, end + 1)
    ELSE HasUnclosed(template, index + 1)

\* the kind names of the specification and of the code
KindNames ==
    {STR, INT, FLOAT, UUID, PATH, <<"m", "u", "l", "t", "i", "p", "a", "t", "h">>}

\* the kind a parameter token names: the text after its first colon
TokenKind(token) == SubSeq(token, str_find(token, ":", 1) + 1, Len(token))

\* some parameter token of the template names a kind nobody supports
HasUnsupportedKind(template) ==
    \E k \in 1..Len(Tokens(template, 1)) :
        /\ contains(Tokens(template, 1)[k], ":")
        /\ TokenKind(Tokens(template, 1)[k]) \notin KindNames

\* the registration is one the claim says must fail
MustBeRefused(d) ==
    \/ contains(d.path, "*")
    \/ HasUnclosed(d.path, 1)
    \/ HasUnsupportedKind(d.path)
    \/ d.methods \ ValidMethods # {}

\* C15: registering a route whose template has a wildcard, an unsupported
\* kind name or an unclosed "{", or whose methods include a name outside the
\* known set, raises a configuration error, creates no Route and leaves the
\* router's collection as it was.
C15_RefusedRegistrationChangesNothing ==
    [][\A d \in TemplateDefs :
          (AddTemplate(d) /\ MustBeRefused(d))
              => /\ raised' \in {"Wildcard patterns are no longer supported",
                                 "Unclosed parameter",
                                 "Unsupported parameter type",
                                 "Invalid HTTP methods"}
                 /\ routes' = routes
                 /\ registered' = registered]_vars

\* a registration with a wildcard was refused on a router that holds a route
C15_Witness ==
    /\ raised = "Wildcard patterns are no longer supported"
    /\ Len(routes) = 1

\* the declared type that agrees with a parameter kind
AgreeingType(kind) ==
    CASE kind = "int" -> "int"
      [] kind = "float" -> "float"
      [] kind = "uuid" -> "UUID"
      [] OTHER -> "str"

\* every declared type of the handler agrees with the kind of its parameter
TypesAgree(handler, param_types) ==
    \A k \in 1..Len(param_types) :
        \A j \in 1..Len(handler) :
            (handler[j].name = param_types[k].name /\ handler[j].annotation # "empty")
                => handler[j].annotation = AgreeingType(param_types[k].type)

\* C16: a Route whose handler declares a type for a path parameter is
\* constructed only when the type agrees with the parameter's kind (int with
\* int, float with float, uuid with UUID, str and multi-segment with str): in
\* every constructed Route the declared types agree, and a registration that
\* passes the other checks is refused with a type mismatch exactly when some
\* declared type disagrees, so that undeclared types are always accepted.
C16_DeclaredTypesAgree ==
    /\ [](\A i \in 1..Len(routes) :
            TypesAgree(routes[i].handler, routes[i].param_types))
    /\ [][\A d \in TemplateDefs :
            (/\ AddTemplate(d)
             /\ _invalid_http_methods(d.methods) = {}
             /\ _compile_path_pattern(normalize(d.path)).ok
             /\ TokenNames(d.path) = DeclaredNames(d.handler))
            => (raised' = "type mismatch"
                  <=> ~TypesAgree(d.handler,
                                  _compile_path_pattern(normalize(d.path)).param_types))]_vars

\* the number of non-empty segments between the slashes of a text: the
\* positions where a character other than a slash starts a segment
NonEmptySegments(text) ==
    Cardinality({k \in 1..Len(text) :
                    text[k] # "/" /\ (k = 1 \/ text[k - 1] = "/")})

\* the number of empty segments inside a text: the slashes that follow a
\* slash, after the first segment has started and before the last one starts
EmptyInteriorSegments(text) ==
    Cardinality({k \in 2..Len(text) :
                    /\ text[k] = "/" /\ text[k - 1] = "/"
                    /\ \E a \in 1..(k - 1) : text[a] # "/"
                    /\ \E b \in (k + 1)..Len(text) : text[b] # "/"})

\* C17 as stated: the segment count of every constructed Route is the number
\* of non-empty segments of its template, and 1 for the root template.
C17_SegmentCountNonEmpty ==
    \A i \in 1..Len(routes) :
        routes[i].segment_count =
            IF normalize(registered[i].path) = <<"/">> THEN 1
            ELSE NonEmptySegments(registered[i].path)

\* C17, amended: the segment count of every constructed Route is 1 for the
\* root template and otherwise the number of segments of the normalized
\* template with its leading slashes removed, empty segments inside it
\* counted: the number of non-empty segments plus the number of empty
\* interior ones. It is the number of non-empty segments exactly for the
\* templates without an empty interior segment.
C17_SegmentCountWithEmptyInterior ==
    \A i \in 1..Len(routes) :
        /\ routes[i].segment_count =
              IF normalize(registered[i].path) = <<"/">> THEN 1
              ELSE NonEmptySegments(registered[i].path)
                     + EmptyInteriorSegments(registered[i].path)
        /\ routes[i].segment_count >= 1
        /\ (EmptyInteriorSegments(registered[i].path) = 0
              /\ normalize(registered[i].path) # <<"/">>)
             => routes[i].segment_count = NonEmptySegments(registered[i].path)

\* a Route stands constructed from a template with an empty segment inside
C17_Witness ==
    \E i \in 1..Len(routes) :
        /\ EmptyInteriorSegments(registered[i].path) > 0
        /\ routes[i].segment_count > NonEmptySegments(registered[i].path)

\* C18: a router that was included keeps what the inclusion copied: when a
\* router that is already included into a parent registers a further route or
\* includes another router, the parent's collection stays as it was, and so
\* does the result of every lookup on the application's router.
C18_InclusionIsACopy ==
    [][\A t \in SubRouters :
            subrouters'[t] # subrouters[t] =>
                /\ included("app", t) =>
                      /\ routes' = routes
                      /\ \A path \in IncludePaths :
                            find_route(routes', path, GET) = find_route(routes, path, GET)
                /\ \A s \in SubRouters \ {t} :
                      included(s, t) => subrouters'[s] = subrouters[s]]_vars

\* the application included a router, the router has grown since then, and a
\* lookup on the application still found the copied route
C18_Witness ==
    \E t \in SubRouters :
        /\ included("app", t)
        /\ Len(routes) > 0
        /\ Len(subrouters[t]) > Len(routes)
        /\ found # None

RECURSIVE Under(_, _)
\* the path with the prefixes put before it, the first of them outermost
Under(prefixes, path) ==
    IF prefixes = <<>> THEN path
    ELSE rstrip(Head(prefixes), "/") \o Under(Tail(prefixes), path)

\* what may follow the prefixes in a request path
Tails == { <<"/", "1", "1">>, <<"/", "1">>, <<"/", "x">>, <<"/", "d">>,
           <<"/", "1", "/">>, <<"/">> }

\* the prefix with which the application was asked to include the router
AskedPrefix(t) == (CHOOSE e \in includes : e[1] = "app" /\ e[2] = t)[3]

\* the prefixes between the application and the template of its i-th route
Lineage(i) ==
    LET p == AskedPrefix(registered[i].via)
    IN (IF p = <<>> THEN <<>> ELSE <<p>>) \o registered[i].prefixes

\* the route as the router that first registered the template holds it
OwnRoute(i) ==
    LET own == registered[i].prefixes[Len(registered[i].prefixes)]
    IN Route(Under(<<own>>, registered[i].template), routes[i].handler,
             routes[i].methods, routes[i].priority).route

\* C19: inclusion composes through several routers: a route that reached the
\* application through inclusions is found at the path made of the prefix of
\* the application's inclusion, the prefixes of the routers in between, the
\* prefix of the registering router and the template, and the lookup gives
\* the parameters that the registering router's own route extracts.
C19_InclusionComposes ==
    \A i \in 1..Len(routes) :
        LET e == registered[i]
            own == e.prefixes[Len(e.prefixes)]
        IN /\ included("app", e.via)
           /\ routes[i].path = Under(Lineage(i), e.template)
           /\ \A q \in Tails :
                 LET inner == matches(OwnRoute(i), Under(<<own>>, q), GET)
                     outer == find_route(routes, Under(Lineage(i), q), GET)
                 IN inner.ok =>
                       /\ outer # None
                       /\ registered[outer.route].template = e.template
                       /\ outer.params = inner.params

\* the application included, under "/a", a router that had included another
\* one; the lookup of "/a/b/c/11" found the innermost route with n = 11
C19_Witness ==
    /\ query # None
    /\ found # None
    /\ query.path = <<"/", "a", "/", "b", "/", "c", "/", "1", "1">>
    /\ Len(Lineage(found.route)) = 3
    /\ found.params = <<[name |-> <<"n">>, value |-> [t |-> "int", v |-> 11]]>>

\* the pattern of some registered route matches the path, under whichever
\* method the route accepts
PatternMatches(path) ==
    \E i \in 1..Len(routes) :
        \E m \in routes[i].methods : matches(routes[i], path, m).ok

\* no registered route matches the path under the method
NoneAccepts(path, method) ==
    \A i \in 1..Len(routes) : ~matches(routes[i], path, method).ok

\* C20: a lookup whose path matches the pattern of a registered route, but
\* whose method none of the matching routes accepts, has an outcome other
\* than the outcome of a lookup that matches no pattern (which is None).
C20_MethodNotAllowedDistinguished ==
    (/\ query # None
     /\ PatternMatches(query.path)
     /\ NoneAccepts(query.path, query.method)) => found # None

\* the event the lifespan invocation handles, once it has received its message
HandledEvent == Head(delivered)

\* the handlers run so far are the first handlers of the list, in list order
RanInOrder == handler_log = [k \in 1..Len(handler_log) |-> k]

\* C21: on lifespan.startup (lifespan.shutdown) the handlers of the event run
\* one at a time in registration order, the build step of the middleware chain
\* being the first startup handler; the complete message is sent once, and
\* only when every handler of the event has run.
C21_HandlersInOrderThenComplete ==
    /\ [](/\ startup_handlers[1] = "build"
          /\ \A k \in 2..Len(startup_handlers) : startup_handlers[k] # "build"
          /\ RanInOrder
          /\ lifespan_pc \in {"lifespan.startup", "lifespan.shutdown"} =>
                lifespan_sent = <<>>
          /\ lifespan_pc = "returned" => Len(lifespan_sent) = 1)
    /\ [][/\ startup_handlers' # startup_handlers =>
                \E f \in HandlerFuncs : startup_handlers' = Append(startup_handlers, f)
          /\ shutdown_handlers' # shutdown_handlers =>
                \E f \in HandlerFuncs : shutdown_handlers' = Append(shutdown_handlers, f)
          /\ handler_log' # handler_log /\ handler_log' # <<>> =>
                handler_log' = Append(handler_log, Len(handler_log) + 1)
          /\ lifespan_pc # "returned" /\ lifespan_pc' = "returned" =>
                LET handlers == handlers_of(lifespan_pc)
                    complete == [type |-> lifespan_pc \o ".complete"]
                IN IF \E k \in 1..Len(handler_log') : handlers[handler_log'[k]] = "raise"
                   THEN lifespan_sent'[1] # complete
                   ELSE /\ lifespan_sent' = <<complete>>
                        /\ Len(handler_log') = Len(handlers)]_vars

\* a startup with the build step and two user handlers has completed: the
\* three ran and the complete message is the only one sent
C21_Witness ==
    /\ lifespan_pc = "returned"
    /\ delivered = <<"lifespan.startup">>
    /\ Len(startup_handlers) = 3
    /\ handler_log = <<1, 2, 3>>
    /\ lifespan_sent = <<[type |-> "lifespan.startup.complete"]>>
    /\ middleware_built

\* the run of the lifespan invocation in which the k-th handler run has raised
RaisedAt(k) ==
    /\ lifespan_pc # "idle"
    /\ k \in 1..Len(handler_log)
    /\ handlers_of(HandledEvent)[handler_log[k]] = "raise"

\* C22: when a handler of a lifespan event raises, no handler registered
\* after it runs for that event, the failed message of the event with the
\* error text is the one message sent, no complete message is sent, and the
\* invocation returns without the error.
C22_HandlerErrorAnswered ==
    /\ [](\A k \in 1..Len(handler_log) :
             RaisedAt(k) =>
                 /\ k = Len(handler_log)
                 /\ lifespan_pc = "returned"
                 /\ lifespan_sent = <<[type |-> HandledEvent \o ".failed",
                                       message |-> ErrorText]>>)
    /\ [][(/\ handler_log' # handler_log
            /\ handler_log' # <<>>
            /\ handlers_of(lifespan_pc)[handler_log'[Len(handler_log')]] = "raise") =>
              /\ lifespan_pc' = "returned"
              /\ raised' = raised]_vars

\* the second of three shutdown handlers raised: two handlers ran and the
\* failed message was sent
C22_Witness ==
    /\ delivered = <<"lifespan.shutdown">>
    /\ Len(shutdown_handlers) = 3
    /\ handler_log = <<1, 2>>
    /\ RaisedAt(2)
    /\ lifespan_sent = <<[type |-> "lifespan.shutdown.failed", message |-> ErrorText]>>

\* C24: a registration (on_event or add_event_handler) with an event type
\* other than "startup" and "shutdown" raises ValueError and leaves the
\* startup and the shutdown handler lists as they were; no registration that
\* changes a list raises.
C24_InvalidEventTypeRefused ==
    [][/\ \A t \in EventTypes \ {"startup", "shutdown"}, f \in HandlerFuncs :
             (on_event(t, f) \/ add_event_handler(t, f)) =>
                 /\ raised' = "ValueError"
                 /\ startup_handlers' = startup_handlers
                 /\ shutdown_handlers' = shutdown_handlers
       /\ (/\ lifespan_pc' = lifespan_pc
           /\ <<startup_handlers, shutdown_handlers>>' #
                 <<startup_handlers, shutdown_handlers>>) => raised' = "none"]_vars

\* a registration with an invalid event type was refused on an application
\* that holds user handlers for both events
C24_Witness ==
    /\ raised = "ValueError"
    /\ Len(startup_handlers) > 1
    /\ Len(shutdown_handlers) > 0

\* C27: a lifespan invocation whose receive channel delivers lifespan.startup
\* and then lifespan.shutdown has, when it returns, received the shutdown
\* message and answered it with the complete or the failed message.
C27_ShutdownAnsweredBeforeReturn ==
    (/\ lifespan_pc = "returned"
     /\ delivered = <<"lifespan.startup", "lifespan.shutdown">>) =>
        /\ inbox = <<>>
        /\ \E k \in 1..Len(lifespan_sent) :
              lifespan_sent[k].type \in {"lifespan.shutdown.complete",
                                         "lifespan.shutdown.failed"}

\* everything the server delivers for the request, received or not yet
Delivered == receive_calls \o channel

\* the message ends the body: a disconnect, or a request message that does
\* not announce more
EndsBody(message) ==
    \/ message.type = "http.disconnect"
    \/ message.type = "http.request" /\ ~(message.has_more /\ message.more_body)

\* the place of the first message that ends the body, 0 when there is none
FirstEnd(script) ==
    IF \E k \in 1..Len(script) : EndsBody(script[k])
    THEN CHOOSE k \in 1..Len(script) :
            EndsBody(script[k]) /\ \A l \in 1..(k - 1) : ~EndsBody(script[l])
    ELSE 0

\* the body field a message contributes
BodyField(message) ==
    IF message.type = "http.request" /\ message.has_body THEN message.body ELSE <<>>

RECURSIVE BodyUpTo(_, _)
\* the body fields of the first k messages, in arrival order
BodyUpTo(script, k) ==
    IF k = 0 THEN <<>> ELSE BodyUpTo(script, k - 1) \o BodyField(script[k])

\* C30: the reassembled body is the concatenation, in arrival order, of the
\* body fields of the http.request messages up to and including the first
\* that does not announce more, or up to the first http.disconnect; no
\* message after that one is received; and the reassembly ends whenever the
\* channel delivers such a message.
C30_BodyReassembled ==
    /\ [](/\ join(body_parts) = BodyUpTo(Delivered, Len(receive_calls))
          /\ phase = "receive" =>
                \A k \in 1..Len(receive_calls) : ~EndsBody(receive_calls[k])
          /\ phase = "pipeline" =>
                /\ FirstEnd(Delivered) # 0
                /\ Len(receive_calls) = FirstEnd(Delivered)
                /\ join(body_parts) = BodyUpTo(Delivered, FirstEnd(Delivered)))
    /\ (phase = "receive" /\ FirstEnd(Delivered) # 0) ~> (phase = "pipeline")

\* two chunks made the body and a third message was left on the channel
C30_Witness ==
    /\ phase = "pipeline"
    /\ Len(receive_calls) = 2
    /\ Len(body_parts) = 2
    /\ join(body_parts) = <<"x", "y", "z">>
    /\ channel # <<>>

\* the two messages of a response with the given status
TwoMessages(status) ==
    <<[type |-> "http.response.start", status |-> status],
      [type |-> "http.response.body"]>>

\* the request r came in when the chain of the application was built
AfterBuild(r) == using[r] # None /\ using[r].handler # None

\* C23: for an HTTP request handled after the chain is built the application
\* sends http.response.start with a status and then http.response.body, and
\* nothing else: each send appends one message, and the invocation returns
\* when exactly these two messages have been sent, in this order.
C23_StartThenBody ==
    /\ [](\A r \in Requests :
            AfterBuild(r) =>
               /\ pc[r] = "start" => sent[r] = <<>>
               /\ pc[r] = "body" =>
                     \E status \in 100..599 : sent[r] = <<TwoMessages(status)[1]>>
               /\ pc[r] = "done" =>
                     \E status \in 100..599 : sent[r] = TwoMessages(status))
    /\ [][\A r \in Requests :
            sent'[r] # sent[r] =>
               \E message \in {sent'[r][Len(sent'[r])]} :
                   sent'[r] = Append(sent[r], message)]_vars

\* two requests that came in after the build: one has its two messages out,
\* the other its start message only
C23_Witness ==
    \E r, q \in Requests :
        /\ AfterBuild(r) /\ AfterBuild(q)
        /\ pc[r] = "done"
        /\ sent[r] = TwoMessages(500)
        /\ pc[q] = "body"
        /\ Len(sent[q]) = 1

\* the construction of the request raises TypeError before the pipeline is
\* called: the invocation returns normally and the response sent is the one
\* of status 500, one http.response.start and then one http.response.body
RequestErrorAnswered ==
    (/\ pc[Caller] \in {"start", "body", "done"}
     /\ ret[Caller].tag = "error") =>
        /\ ret[Caller].by = "TypeError"
        /\ IsPrefix(sent[Caller], TwoMessages(500))
        /\ pc[Caller] = "start" => sent[Caller] = <<>>
        /\ pc[Caller] = "body" => Len(sent[Caller]) = 1
        /\ pc[Caller] = "done" => sent[Caller] = TwoMessages(500)

\* what the pattern of the route captures from the text, converted
Captured(route, text) ==
    LET m == re_match(route.path_regex, text)
    IN IF m.ok THEN _extract_path_parameters(route, m.groups) ELSE NoParams

\* the pattern of the route matches the text
PatternMatchesText(route, text) == re_match(route.path_regex, text).ok

\* C26: for a request that passes the method test and the segment pre-check,
\* the answer of matches is what the pattern captures from the raw path when
\* it matches the raw path, and otherwise what it captures from the
\* trailing-slash-normalized path; so when both forms match, the parameters
\* are those of the raw path.
C26_RawPathFirst ==
    \A i \in 1..Len(routes) : \A path \in RoutePaths, method \in RequestMethods :
        (upper(method) \in routes[i].methods /\ segment_match(routes[i], path)) =>
            matches(routes[i], path, method) =
                IF PatternMatchesText(routes[i], path)
                THEN Captured(routes[i], path)
                ELSE Captured(routes[i], normalize(path))

\* the lookup of "/1/" found a route whose pattern matches "/1/" and "/1"
\* with different captures, and gave the capture of "/1/"
C26_Witness ==
    /\ query # None
    /\ found # None
    /\ query.path = <<"/", "1", "/">>
    /\ PatternMatchesText(routes[found.route], query.path)
    /\ PatternMatchesText(routes[found.route], normalize(query.path))
    /\ Captured(routes[found.route], query.path).params #
          Captured(routes[found.route], normalize(query.path)).params
    /\ found.params = Captured(routes[found.route], query.path).params

\* C29: the segment pre-check only saves work: whenever it rejects a path
\* for a route whose methods accept the request, the pattern of the route
\* matches neither the raw path nor the trailing-slash-normalized path.
C29_PreCheckOnlyOptimisation ==
    \A i \in 1..Len(routes) : \A path \in RoutePaths, method \in RequestMethods :
        (upper(method) \in routes[i].methods /\ ~segment_match(routes[i], path)) =>
            /\ ~PatternMatchesText(routes[i], path)
            /\ ~PatternMatchesText(routes[i], normalize(path))

====
